---- MODULE Spec2Model ----
(***************************************************************************)
(* Model of the NCLEX chat storefront: the Telegraf bot of                 *)
(* src/src/bot/index.js (user middleware, /buy and /questions commands,    *)
(* the text handler, the purchase flow and file delivery) over the         *)
(* Material / User collections and the GridFS bucket.                      *)
(*                                                                         *)
(* Texts are sequences of one-character strings, so that trim,             *)
(* toLowerCase, includes, parseInt and parseFloat are computed the way     *)
(* the JavaScript runtime computes them.  Every `await` of a handler is a  *)
(* step of its own: an action runs the code from one resumption to the     *)
(* next await.  Session objects live in a heap and are held by reference,  *)
(* as the objects stored in the `userSessions` Map are.                    *)
(***************************************************************************)
EXTENDS Integers, Sequences, FiniteSets, TLC

\* ------------------------------------------------------------------ bounds
NumUsers == 1       \* external (Telegram) user ids 1..NumUsers
MaxInFlight == 2    \* handler slots: updates being handled at the same time
MaxCount == 2       \* no new update is accepted once an item has this many downloads
RandSamples == 2    \* sampled values of Math.random(): k / RandSamples, k < RandSamples
NumPeers == 2       \* users of the specifications in which updates overlap
MaxRequests == 3    \* requests the admin HTTP API serves in one run

Users == 1..NumUsers
Peers == 1..NumPeers
Slots == 1..MaxInFlight

\* ------------------------------------------------------ characters and text
UpperChars ==
  <<"A","B","C","D","E","F","G","H","I","J","K","L","M","N","O","P","Q","R","S","T","U","V","W","X","Y","Z">>
LowerChars ==
  <<"a","b","c","d","e","f","g","h","i","j","k","l","m","n","o","p","q","r","s","t","u","v","w","x","y","z">>
DigitChars == <<"0","1","2","3","4","5","6","7","8","9">>

IndexIn(c, chars) ==
  IF \E i \in 1..Len(chars) : chars[i] = c
    THEN CHOOSE i \in 1..Len(chars) : chars[i] = c
    ELSE 0

IsDigit(c) == IndexIn(c, DigitChars) > 0
DigitVal(c) == IndexIn(c, DigitChars) - 1
IsSpace(c) == c = " "

\* String.prototype.toLowerCase
LowerChar(c) == IF IndexIn(c, UpperChars) > 0 THEN LowerChars[IndexIn(c, UpperChars)] ELSE c
ToLowerCase(s) == [i \in 1..Len(s) |-> LowerChar(s[i])]

\* String.prototype.trim
RECURSIVE TrimStart(_)
TrimStart(s) == IF Len(s) > 0 /\ IsSpace(s[1]) THEN TrimStart(Tail(s)) ELSE s
RECURSIVE TrimEnd(_)
TrimEnd(s) ==
  IF Len(s) > 0 /\ IsSpace(s[Len(s)]) THEN TrimEnd(SubSeq(s, 1, Len(s) - 1)) ELSE s
Trim(s) == TrimEnd(TrimStart(s))

\* String.prototype.includes
Includes(s, sub) ==
  \E i \in 0..(Len(s) - Len(sub)) : SubSeq(s, i + 1, i + Len(sub)) = sub

\* String.prototype.slice(0, n)
Slice0(s, n) == SubSeq(s, 1, IF n < Len(s) THEN n ELSE Len(s))

\* s.split(' ')[0]
RECURSIVE FirstWord(_)
FirstWord(s) ==
  IF Len(s) = 0 \/ s[1] = " " THEN <<>> ELSE <<s[1]>> \o FirstWord(Tail(s))

\* JavaScript NaN, as the result of parseInt / parseFloat
NaN == -1000000

\* the longest prefix of s made of digits
RECURSIVE DigitPrefix(_)
DigitPrefix(s) ==
  IF Len(s) > 0 /\ IsDigit(s[1]) THEN <<s[1]>> \o DigitPrefix(Tail(s)) ELSE <<>>

RECURSIVE DigitsValue(_)
DigitsValue(ds) ==
  IF Len(ds) = 0 THEN 0
  ELSE 10 * DigitsValue(SubSeq(ds, 1, Len(ds) - 1)) + DigitVal(ds[Len(ds)])

\* parseInt(s) (radix 10): leading white space is skipped, an optional sign is
\* read, then the longest run of digits; whatever follows is ignored; NaN when
\* there is no digit.  (No text of the model starts with "0x".)
ParseInt(s) ==
  LET t == TrimStart(s)
      neg == Len(t) > 0 /\ t[1] = "-"
      body == IF Len(t) > 0 /\ (t[1] = "-" \/ t[1] = "+") THEN Tail(t) ELSE t
      ds == DigitPrefix(body)
  IN IF Len(ds) = 0 THEN NaN
     ELSE IF neg THEN 0 - DigitsValue(ds) ELSE DigitsValue(ds)

\* parseFloat(s), in hundredths: sign, digits, an optional fraction of which
\* the first two digits are kept; NaN when no digit starts the number.
ParseFloat(s) ==
  LET t == TrimStart(s)
      neg == Len(t) > 0 /\ t[1] = "-"
      body == IF Len(t) > 0 /\ (t[1] = "-" \/ t[1] = "+") THEN Tail(t) ELSE t
      ip == DigitPrefix(body)
      rest == SubSeq(body, Len(ip) + 1, Len(body))
      fp == IF Len(rest) > 0 /\ rest[1] = "." THEN DigitPrefix(Tail(rest)) ELSE <<>>
      f1 == IF Len(fp) >= 1 THEN DigitVal(fp[1]) ELSE 0
      f2 == IF Len(fp) >= 2 THEN DigitVal(fp[2]) ELSE 0
      mag == 100 * DigitsValue(ip) + 10 * f1 + f2
  IN IF Len(ip) = 0 /\ Len(fp) = 0 THEN NaN
     ELSE IF neg THEN 0 - mag ELSE mag

isNaN(n) == n = NaN

\* ------------------------------------------------------------- categories
\* "Safe and Effective Care Environment"
CatSafe ==
  <<"S","a","f","e"," ","a","n","d"," ","E","f","f","e","c","t","i","v","e"," ","C","a","r","e"," ","E","n","v","i","r","o","n","m","e","n","t">>
\* "Health Promotion and Maintenance"
CatHealth ==
  <<"H","e","a","l","t","h"," ","P","r","o","m","o","t","i","o","n"," ","a","n","d"," ","M","a","i","n","t","e","n","a","n","c","e">>
\* "Psychosocial Integrity"
CatPsych ==
  <<"P","s","y","c","h","o","s","o","c","i","a","l"," ","I","n","t","e","g","r","i","t","y">>
\* "Physiological Integrity"
CatPhys ==
  <<"P","h","y","s","i","o","l","o","g","i","c","a","l"," ","I","n","t","e","g","r","i","t","y">>

\* the category enumeration, in the order of categoryMap / categories; a
\* category is held as its 1-based position in it, and null as 0
categories == <<CatSafe, CatHealth, CatPsych, CatPhys>>
NoCategory == 0

\* /^[1-4]$/.test(s)
IsCategoryNumber(s) == Len(s) = 1 /\ IsDigit(s[1]) /\ DigitVal(s[1]) \in 1..4

\* the test of the for loop over the category names
CategoryNameMatches(userInput, category) ==
  \/ Includes(ToLowerCase(userInput), Slice0(ToLowerCase(category), 20))
  \/ Includes(ToLowerCase(userInput), ToLowerCase(FirstWord(category)))

\* selectedCategory of the category_selection case (0 when it stays null)
ParseCategory(userInput) ==
  IF IsCategoryNumber(Trim(userInput))
    THEN DigitVal(Trim(userInput)[1])
  ELSE IF \E c \in 1..Len(categories) : CategoryNameMatches(userInput, categories[c])
    THEN CHOOSE c \in 1..Len(categories) :
           /\ CategoryNameMatches(userInput, categories[c])
           /\ \A d \in 1..(c - 1) : ~CategoryNameMatches(userInput, categories[d])
  ELSE NoCategory

\* ------------------------------------------------------------------ texts
\* the message texts the chat channel delivers; an update carries the index
Texts ==
  << <<"1">>,                                                     \* 1
     <<"2">>,                                                     \* 2
     <<"3">>,                                                     \* 3
     <<"4">>,                                                     \* 4
     <<"0">>,                                                     \* 5
     <<"9","9">>,                                                 \* 6  "99"
     <<"2","a","b","c">>,                                         \* 7  "2abc"
     <<"a","b","c">>,                                             \* 8  "abc"
     <<"B","a","c","k">>,                                         \* 9  "Back"
     <<"D","o","w","n","l","o","a","d">>,                         \* 10 "Download"
     <<"p","s","y","c","h","o","s","o","c","i","a","l"," ","p","l","e","a","s","e">>,
                                                                  \* 11 "psychosocial please"
     <<"r","e","s","u","m","e">>,                                 \* 12 "resume"
     <<"b","u","y">>,                                             \* 13 "buy"
     <<"b","u","y"," ","p","r","a","c","t","i","c","e"," ","q","u","i","z">>,
                                                                  \* 14 "buy practice quiz"
     <<"p","r","a","c","t","i","c","e">>,                         \* 15 "practice"
     <<"p","u","r","c","h","a","s","e"," ","p","s","y","c","h","o","s","o","c","i","a","l"," ","i","n","t","e","g","r","i","t","y">>,
                                                                  \* 16 "purchase psychosocial integrity"
     <<"h","e","l","l","o">>,                                     \* 17 "hello"
     <<"/","b","u","y">>,                                         \* 18 "/buy"
     <<"/","q","u","e","s","t","i","o","n","s">> >>               \* 19 "/questions"
TextIds == 1..Len(Texts)

StrBack == <<"b","a","c","k">>
StrDownload == <<"d","o","w","n","l","o","a","d">>
StrResume == <<"r","e","s","u","m","e">>
StrBuy == <<"b","u","y">>
StrSlashBuy == <<"/","b","u","y">>
StrPurchase == <<"p","u","r","c","h","a","s","e">>
StrPayment == <<"p","a","y","m","e","n","t">>
StrPractice == <<"p","r","a","c","t","i","c","e">>
StrQuestions == <<"q","u","e","s","t","i","o","n","s">>
StrQuiz == <<"q","u","i","z">>
StrFree == <<"F","r","e","e">>

\* the update is the bot command /name: the text starts with "/name", alone
\* or followed by a space (the entity the chat platform marks at offset 0)
IsCommand(text, name) ==
  LET c == <<"/">> \o name
  IN /\ Len(text) >= Len(c)
     /\ SubSeq(text, 1, Len(c)) = c
     /\ (IF Len(text) = Len(c) THEN TRUE ELSE text[Len(c) + 1] = " ")

\* ------------------------------------------------------------- text handler
\* a dispatch that tests the practice keywords before the purchase intent
KeywordRoutePracticeFirst(text) ==
  LET lower == ToLowerCase(text)
  IN IF lower = StrResume THEN "resume"
     ELSE IF Includes(lower, StrPractice) \/ Includes(lower, StrQuestions)
             \/ Includes(lower, StrQuiz)
       THEN "practice"
     ELSE IF Includes(lower, StrSlashBuy) \/ (Includes(lower, StrBuy) /\ Len(text) > 10)
       THEN "buy"
     ELSE "fallback"

\* the branch bot.on('text') takes for the text (trimmed) and the session
\* object it read (FreeObj when there is none).  No code stores the states
\* awaiting_material_selection and awaiting_download, so their branches are
\* never taken.
KeywordRoute(text) ==
  LET lower == ToLowerCase(text)
  IN IF lower = StrResume THEN "resume"
     ELSE IF Includes(lower, StrSlashBuy) \/ (Includes(lower, StrBuy) /\ Len(text) > 10)
       THEN "buy"
     ELSE IF Includes(lower, StrPractice) \/ Includes(lower, StrQuestions)
             \/ Includes(lower, StrQuiz)
       THEN "practice"
     ELSE "fallback"

\* what the handlers compute from the text of update t, computed once per text:
\* text is ctx.message.text.trim()
Input ==
  [t \in TextIds |->
     LET text == Trim(Texts[t])
     IN [text |-> text,
         lower |-> ToLowerCase(text),
         buyCommand |-> IsCommand(Texts[t], StrBuy),
         questionsCommand |-> IsCommand(Texts[t], StrQuestions),
         keyword |-> KeywordRoute(text),
         selectedCategory |-> ParseCategory(text),
         selectedNumber |-> ParseInt(Trim(text))]]


\* ---------------------------------------------------------------- catalog
\* Material documents (materialSchema); price is the stored string, revenue
\* is held in hundredths
MatIds == 1..5
FileIds == 1..5
NoMaterial == [id |-> 0, category |-> 0, price |-> <<>>, fileId |-> 0]
\* the place of a document that was never stored
AbsentDoc ==
  [exists |-> FALSE, category |-> 0, price |-> <<>>, fileId |-> 0,
   downloads |-> 0, purchases |-> 0, revenue |-> 0]

\* 50 * 1024 * 1024
maxFileSize == 52428800
FileAbsent == -1

InitMaterial ==
  [m \in MatIds |->
     [exists |-> TRUE,
      category |-> <<3, 3, 4, 4, 1>>[m],
      price |-> << StrFree, <<"1","2",".","5","0">>, <<"N","/","A">>, <<"5">>, <<"5">> >>[m],
      fileId |-> m,
      downloads |-> 0, purchases |-> 0, revenue |-> 0]]

\* the GridFS bucket: the stored length of each file, FileAbsent when there is none
InitGfs == [f \in FileIds |-> <<1000, maxFileSize, 1000, maxFileSize + 1, FileAbsent>>[f]]

\* a document as .lean() returns it: the fields the bot reads
Lean(docs, m) ==
  [id |-> m, category |-> docs[m].category, price |-> docs[m].price, fileId |-> docs[m].fileId]

RECURSIVE IdsFrom(_, _, _)
IdsFrom(docs, category, m) ==
  IF m > Cardinality(MatIds) THEN <<>>
  ELSE (IF docs[m].exists /\ docs[m].category = category THEN <<m>> ELSE <<>>)
       \o IdsFrom(docs, category, m + 1)

\* Material.find({ category }).limit(10).lean(), in the store's natural order
FindByCategory(docs, category) ==
  LET ids == IdsFrom(docs, category, 1)
      n == IF Len(ids) < 10 THEN Len(ids) ELSE 10
  IN [i \in 1..n |-> Lean(docs, ids[i])]

\* ----------------------------------------------------------------- search
\* the stopWords array of extractNCLEXSearchTokens
stopWords ==
  {<<"a">>,
   <<"a","b","o","u","t">>,
   <<"a","m">>,
   <<"a","n">>,
   <<"a","n","d">>,
   <<"a","n","y">>,
   <<"a","r","e">>,
   <<"a","s">>,
   <<"a","t">>,
   <<"b","e">>,
   <<"b","e","e","n">>,
   <<"b","e","i","n","g">>,
   <<"b","u","t">>,
   <<"b","u","y">>,
   <<"b","y">>,
   <<"c","a","n">>,
   <<"c","o","u","l","d">>,
   <<"c","u","r","r","e","n","t","l","y">>,
   <<"d","i","d">>,
   <<"d","o">>,
   <<"d","o","e","s">>,
   <<"e","x","a","m">>,
   <<"e","x","a","m","s">>,
   <<"f","o","r">>,
   <<"h","a","d">>,
   <<"h","a","s">>,
   <<"h","a","v","e">>,
   <<"h","e","l","p">>,
   <<"i">>,
   <<"i","n">>,
   <<"i","s">>,
   <<"l","e","a","r","n">>,
   <<"l","i","k","e">>,
   <<"l","o","o","k","i","n","g">>,
   <<"m","a","t","e","r","i","a","l">>,
   <<"m","a","t","e","r","i","a","l","s">>,
   <<"m","a","y">>,
   <<"m","e">>,
   <<"m","i","g","h","t">>,
   <<"m","u","s","t">>,
   <<"m","y">>,
   <<"n","c","l","e","x">>,
   <<"n","e","e","d">>,
   <<"o","f">>,
   <<"o","n">>,
   <<"o","r">>,
   <<"p","a","p","e","r">>,
   <<"p","a","p","e","r","s">>,
   <<"p","l","e","a","s","e">>,
   <<"p","n">>,
   <<"p","r","e","p","a","r","i","n","g">>,
   <<"p","u","r","c","h","a","s","e">>,
   <<"r","n">>,
   <<"s","h","a","l","l">>,
   <<"s","h","o","u","l","d">>,
   <<"s","o","m","e">>,
   <<"s","t","u","d","y">>,
   <<"s","t","u","d","y","i","n","g">>,
   <<"t","e","s","t">>,
   <<"t","e","s","t","s">>,
   <<"t","h","a","t">>,
   <<"t","h","e">>,
   <<"t","h","e","s","e">>,
   <<"t","h","i","s">>,
   <<"t","h","o","s","e">>,
   <<"t","o">>,
   <<"t","o","p","i","c","s">>,
   <<"w","a","n","t">>,
   <<"w","a","s">>,
   <<"w","e","r","e">>,
   <<"w","i","l","l">>,
   <<"w","i","t","h">>,
   <<"w","o","u","l","d">>}

\* NCLEX_CATEGORIES: the keyword phrases of each category, in the order of
\* `categories`
NCLEX_CATEGORIES ==
  << <<
       <<"p","a","t","i","e","n","t"," ","s","a","f","e","t","y">>,   \* "patient safety"
       <<"i","n","f","e","c","t","i","o","n"," ","c","o","n","t","r","o","l">>,   \* "infection control"
       <<"l","e","g","a","l"," ","r","e","s","p","o","n","s","i","b","i","l","i","t","i","e","s">>,   \* "legal responsibilities"
       <<"e","t","h","i","c","s">>,   \* "ethics"
       <<"d","e","l","e","g","a","t","i","o","n">>,   \* "delegation"
       <<"p","r","i","o","r","i","t","i","z","a","t","i","o","n">>,   \* "prioritization"
       <<"m","a","n","a","g","e","m","e","n","t"," ","o","f"," ","c","a","r","e">>,   \* "management of care"
       <<"e","m","e","r","g","e","n","c","y"," ","p","r","e","p","a","r","e","d","n","e","s","s">>,   \* "emergency preparedness"
       <<"H","I","P","A","A">>,   \* "HIPAA"
       <<"p","a","t","i","e","n","t"," ","r","i","g","h","t","s">>,   \* "patient rights"
       <<"c","o","n","f","i","d","e","n","t","i","a","l","i","t","y">>   \* "confidentiality"
     >>,
     <<
       <<"g","r","o","w","t","h"," ","a","n","d"," ","d","e","v","e","l","o","p","m","e","n","t">>,   \* "growth and development"
       <<"p","r","e","n","a","t","a","l"," ","c","a","r","e">>,   \* "prenatal care"
       <<"p","o","s","t","n","a","t","a","l"," ","c","a","r","e">>,   \* "postnatal care"
       <<"h","e","a","l","t","h"," ","s","c","r","e","e","n","i","n","g">>,   \* "health screening"
       <<"i","m","m","u","n","i","z","a","t","i","o","n","s">>,   \* "immunizations"
       <<"l","i","f","e","s","t","y","l","e"," ","m","o","d","i","f","i","c","a","t","i","o","n">>,   \* "lifestyle modification"
       <<"h","e","a","l","t","h"," ","e","d","u","c","a","t","i","o","n">>,   \* "health education"
       <<"d","i","s","e","a","s","e"," ","p","r","e","v","e","n","t","i","o","n">>   \* "disease prevention"
     >>,
     <<
       <<"m","e","n","t","a","l"," ","h","e","a","l","t","h">>,   \* "mental health"
       <<"d","e","p","r","e","s","s","i","o","n">>,   \* "depression"
       <<"a","n","x","i","e","t","y">>,   \* "anxiety"
       <<"s","c","h","i","z","o","p","h","r","e","n","i","a">>,   \* "schizophrenia"
       <<"c","r","i","s","i","s"," ","i","n","t","e","r","v","e","n","t","i","o","n">>,   \* "crisis intervention"
       <<"s","u","b","s","t","a","n","c","e"," ","a","b","u","s","e">>,   \* "substance abuse"
       <<"t","h","e","r","a","p","e","u","t","i","c"," ","c","o","m","m","u","n","i","c","a","t","i","o","n">>,   \* "therapeutic communication"
       <<"c","o","p","i","n","g"," ","m","e","c","h","a","n","i","s","m","s">>,   \* "coping mechanisms"
       <<"s","t","r","e","s","s"," ","m","a","n","a","g","e","m","e","n","t">>,   \* "stress management"
       <<"a","b","u","s","e">>,   \* "abuse"
       <<"n","e","g","l","e","c","t">>,   \* "neglect"
       <<"g","r","i","e","f">>   \* "grief"
     >>,
     <<
       <<"m","e","d","i","c","a","l","-","s","u","r","g","i","c","a","l"," ","n","u","r","s","i","n","g">>,   \* "medical-surgical nursing"
       <<"p","h","a","r","m","a","c","o","l","o","g","y">>,   \* "pharmacology"
       <<"d","r","u","g"," ","a","c","t","i","o","n","s">>,   \* "drug actions"
       <<"s","i","d","e"," ","e","f","f","e","c","t","s">>,   \* "side effects"
       <<"I","V"," ","t","h","e","r","a","p","y">>,   \* "IV therapy"
       <<"f","l","u","i","d","s">>,   \* "fluids"
       <<"o","x","y","g","e","n","a","t","i","o","n">>,   \* "oxygenation"
       <<"r","e","s","p","i","r","a","t","o","r","y"," ","c","a","r","e">>,   \* "respiratory care"
       <<"c","a","r","d","i","a","c"," ","d","i","s","o","r","d","e","r","s">>,   \* "cardiac disorders"
       <<"r","e","n","a","l"," ","d","i","s","o","r","d","e","r","s">>,   \* "renal disorders"
       <<"n","e","u","r","o","l","o","g","i","c","a","l"," ","d","i","s","o","r","d","e","r","s">>,   \* "neurological disorders"
       <<"e","n","d","o","c","r","i","n","e"," ","d","i","s","o","r","d","e","r","s">>,   \* "endocrine disorders"
       <<"f","l","u","i","d"," ","a","n","d"," ","e","l","e","c","t","r","o","l","y","t","e"," ","b","a","l","a","n","c","e">>,   \* "fluid and electrolyte balance"
       <<"a","c","u","t","e"," ","i","l","l","n","e","s","s">>,   \* "acute illness"
       <<"c","h","r","o","n","i","c"," ","i","l","l","n","e","s","s"," ","m","a","n","a","g","e","m","e","n","t">>,   \* "chronic illness management"
       <<"w","o","u","n","d"," ","c","a","r","e">>   \* "wound care"
     >> >>

\* the characters of /[\s\.,!?;:]+/
IsSeparator(c) == c \in {" ", ".", ",", "!", "?", ";", ":"}

\* s.split(/[\s\.,!?;:]+/), less the empty strings: the maximal runs of
\* characters that are not separators, in order
RECURSIVE Words(_)
Words(s) ==
  IF Len(s) = 0 THEN <<>>
  ELSE IF IsSeparator(s[1]) THEN Words(Tail(s))
  ELSE LET n == IF \E k \in 1..Len(s) : IsSeparator(s[k])
                  THEN (CHOOSE k \in 1..Len(s) :
                          IsSeparator(s[k]) /\ \A j \in 1..(k - 1) : ~IsSeparator(s[j])) - 1
                  ELSE Len(s)
       IN <<SubSeq(s, 1, n)>> \o Words(SubSeq(s, n + 1, Len(s)))

\* [...new Set(xs)]: the first occurrence of each element, in order
RECURSIVE Unique(_)
Unique(xs) ==
  IF Len(xs) = 0 THEN <<>>
  ELSE LET init == Unique(SubSeq(xs, 1, Len(xs) - 1))
           x == xs[Len(xs)]
       IN IF \E i \in 1..Len(init) : init[i] = x THEN init ELSE Append(init, x)

\* extractNCLEXSearchTokens(userQuery, category): the phrases of the category
\* found in the query, then the words longer than two characters that are no
\* stop words and overlap no phrase found; each once
extractNCLEXSearchTokens(userQuery, category) ==
  LET query == Trim(ToLowerCase(userQuery))
      categoryKeywords == IF category = NoCategory THEN <<>> ELSE NCLEX_CATEGORIES[category]
      categoryPhrases ==
        SelectSeq([i \in 1..Len(categoryKeywords) |-> ToLowerCase(categoryKeywords[i])],
                  LAMBDA kw : Includes(query, kw))
      overlaps(word) ==
        \E i \in 1..Len(categoryPhrases) :
          Includes(categoryPhrases[i], word) \/ Includes(word, categoryPhrases[i])
      words == SelectSeq(Words(query),
                         LAMBDA word : Len(word) > 2 /\ word \notin stopWords /\ ~overlaps(word))
  IN Unique(categoryPhrases \o words)

\* the documents of a catalog with the fields the search reads; createdAt is
\* the rank of the creation time (5 the most recent)
SearchTitles ==
  <<<<"A","n","x","i","e","t","y"," ","B","a","s","i","c","s">>,
    <<"G","r","i","e","f"," ","G","u","i","d","e">>,
    <<"C","a","r","d","i","a","c"," ","P","h","a","r","m","a","c","o","l","o","g","y"," ","R","e","v","i","e","w">>,
    <<"F","l","u","i","d","s">>,
    <<"S","a","f","e","t","y">>>>
SearchTopics ==
  <<<<<<"a","n","x","i","e","t","y">>, <<"c","o","p","i","n","g">>>>,
    <<<<"g","r","i","e","f">>>>,
    <<<<"c","a","r","d","i","a","c">>, <<"c","a","r","d","i","a","c"," ","d","r","u","g","s">>>>,
    <<<<"I","V"," ","t","h","e","r","a","p","y">>>>,
    <<<<"i","n","f","e","c","t","i","o","n"," ","c","o","n","t","r","o","l">>>>>>
SearchKeywords ==
  <<<<<<"m","e","n","t","a","l">>>>,
    <<>>,
    <<<<"p","h","a","r","m","a","c","o","l","o","g","y">>>>,
    <<<<"f","l","u","i","d","s">>>>,
    <<>>>>
SearchDescriptions ==
  <<<<"a","n","x","i","e","t","y"," ","c","a","r","e">>,
    <<>>,
    <<"c","a","r","d","i","a","c"," ","r","e","v","i","e","w">>,
    <<"r","e","n","a","l">>,
    <<>>>>
SearchCatalog ==
  [m \in MatIds |->
     [exists |-> TRUE, category |-> InitMaterial[m].category,
      price |-> InitMaterial[m].price, fileId |-> m,
      downloads |-> 0, purchases |-> 0, revenue |-> 0,
      title |-> SearchTitles[m], topics |-> SearchTopics[m],
      keywords |-> SearchKeywords[m], description |-> SearchDescriptions[m],
      createdAt |-> <<3, 1, 5, 2, 4>>[m]]]

\* the userQuery arguments of the calls
Queries ==
  <<<<>>,
    <<"t","h","e">>,
    <<"p","l","e","a","s","e"," ","h","e","l","p"," ","m","e">>,
    <<"t","o"," ","b","e"," ","o","r"," ","i","t">>,
    <<"B","u","y"," ","N","C","L","E","X",","," ","p","l","e","a","s","e","!">>,
    <<"c","a","r","d","i","a","c"," ","p","h","a","r","m","a","c","o","l","o","g","y">>,
    <<"c","a","r","d","i","a","c">>,
    <<"g","r","i","e","f">>,
    <<"i","n","t","e","g","r","i","t","y">>,
    <<"z","z","z">>,
    <<"a","n","x","i","e","t","y"," ","a","n","d"," ","g","r","i","e","f">>>>
QueryIds == 1..Len(Queries)

\* the ids of the stored documents that satisfy P, in the store's natural order
RECURSIVE IdsWhere(_, _, _)
IdsWhere(docs, P(_), m) ==
  IF m \notin MatIds THEN <<>>
  ELSE (IF docs[m].exists /\ P(docs[m]) THEN <<m>> ELSE <<>>) \o IdsWhere(docs, P, m + 1)

\* .limit(n)
Limit(xs, n) == SubSeq(xs, 1, IF n < Len(xs) THEN n ELSE Len(xs))

\* xs ordered by decreasing key, elements of equal key keeping their order
SortDesc(xs, key(_)) ==
  LET rank(i) == Cardinality({j \in 1..Len(xs) :
                                \/ key(xs[j]) > key(xs[i])
                                \/ key(xs[j]) = key(xs[i]) /\ j < i}) + 1
  IN [k \in 1..Len(xs) |-> xs[CHOOSE i \in 1..Len(xs) : rank(i) = k]]

\* a fallback that lists the oldest documents first
FallbackOldestFirst(docs, category, limit) ==
  LET ids == IdsWhere(docs, LAMBDA d : category = NoCategory \/ d.category = category, 1)
  IN Limit(SortDesc(ids, LAMBDA m : 0 - docs[m].createdAt), limit)

\* getNCLEXFallbackMaterials(category, limit):
\* Material.find(category ? { category } : {}).sort({ createdAt: -1 }).limit(limit)
getNCLEXFallbackMaterials(docs, category, limit) ==
  LET ids == IdsWhere(docs, LAMBDA d : category = NoCategory \/ d.category = category, 1)
  IN Limit(SortDesc(ids, LAMBDA m : docs[m].createdAt), limit)

\* { $regex: token, $options: 'i' } on a string; the tokens of the model hold
\* no character that is special in a regular expression
RegexI(text, token) == Includes(ToLowerCase(text), ToLowerCase(token))

\* Material.find(query).limit(limit * 2) of findNCLEXMaterials: some token is
\* found in the title, in a topic, in the description or (the first query
\* only) in a keyword; the category, when given, is equal
SearchFind(docs, searchTokens, category, limit, withKeywords) ==
  LET any(texts, token) == \E i \in 1..Len(texts) : RegexI(texts[i], token)
      hit(d, token) == \/ RegexI(d.title, token)
                       \/ any(d.topics, token)
                       \/ RegexI(d.description, token)
                       \/ withKeywords /\ any(d.keywords, token)
      cond(d) == /\ category # NoCategory => d.category = category
                 /\ \E i \in 1..Len(searchTokens) : hit(d, searchTokens[i])
  IN Limit(IdsWhere(docs, cond, 1), limit * 2)

\* the hits of one token in one document, as scoreNCLEXRelevance counts them
\* (matches[token]) and the points it adds for them
TokenMatches(d, token) ==
  LET topicMatches == Cardinality({i \in 1..Len(d.topics) :
                                     Includes(ToLowerCase(d.topics[i]), token)})
      title == Len(d.title) > 0 /\ Includes(ToLowerCase(d.title), token)
      cat == Includes(ToLowerCase(categories[d.category]), token)
      kw == \E i \in 1..Len(d.keywords) : Includes(ToLowerCase(d.keywords[i]), token)
      desc == Len(d.description) > 0 /\ Includes(ToLowerCase(d.description), token)
      n(b) == IF b THEN 1 ELSE 0
  IN [count |-> n(title) + n(cat) + topicMatches + n(kw) + n(desc),
      points |-> 5 * n(title) + 6 * n(cat) + 4 * topicMatches + 4 * n(kw) + 2 * n(desc)]

\* the relevanceScore scoreNCLEXRelevance gives document d, and its matchedTokens
Relevance(d, searchTokens, category) ==
  LET RECURSIVE Sum(_, _)
      Sum(f(_), i) == IF i = 0 THEN 0 ELSE f(i) + Sum(f, i - 1)
      bonus == IF category # NoCategory
                  /\ Includes(ToLowerCase(categories[d.category]),
                              ToLowerCase(categories[category]))
                 THEN 8 ELSE 0
      totalMatches == Sum(LAMBDA i : TokenMatches(d, searchTokens[i]).count, Len(searchTokens))
      points == Sum(LAMBDA i : TokenMatches(d, searchTokens[i]).points, Len(searchTokens))
  IN [relevanceScore |-> bonus + points + (IF totalMatches > 1 THEN totalMatches * 2 ELSE 0),
      matchedTokens |-> {i \in 1..Len(searchTokens) :
                           TokenMatches(d, searchTokens[i]).count > 0},
      totalMatches |-> totalMatches, points |-> bonus + points]

\* scoreNCLEXRelevance(materials, searchTokens, category): the documents with
\* a positive score, by decreasing score
scoreNCLEXRelevance(docs, materials, searchTokens, category) ==
  LET scored == [i \in 1..Len(materials) |->
                   [id |-> materials[i],
                    relevanceScore |->
                      Relevance(docs[materials[i]], searchTokens, category).relevanceScore]]
  IN SortDesc(SelectSeq(scored, LAMBDA item : item.relevanceScore > 0),
              LAMBDA item : item.relevanceScore)

\* ------------------------------------------------------------------ state
VARIABLES
  userSessions,   \* the Map: user id -> reference of its session object, 0 when none
  heap,           \* the session objects, by reference
  Material,       \* the Material collection
  User,           \* the User collection, by telegramId
  gfs,            \* the GridFS bucket
  inflight,       \* the handlers in progress, one per slot
  last,           \* what the handler that finished last did (cleared by the next update)
  requests,       \* the requests of the admin HTTP API in progress, one per slot
  responses,      \* the responses the admin HTTP API has sent
  proc,           \* the process: where start() is, and how the process ended
  call            \* the call of a function of ai.service.js in progress

vars == <<userSessions, heap, Material, User, gfs, inflight, last, requests, responses, proc, call>>

\* the variables of the bot alone, which the admin HTTP API leaves alone
botVars == <<userSessions, heap, User, inflight, last>>

\* the variables of the admin HTTP API, which the bot leaves alone
apiVars == <<requests, responses>>

\* the process and the calls of ai.service.js made on their own
svcVars == <<proc, call>>

\* the process when start() has run to its end and the bot was launched
Running == [pc |-> "up", code |-> -1, by |-> "none", bot |-> TRUE]

\* no call of ai.service.js is in progress; a call counts the queries of the
\* catalog that were rejected during it
IdleCall ==
  [pc |-> "idle", fn |-> "none", query |-> 0, category |-> NoCategory, limit |-> 0,
   ai |-> "none", searchTokens |-> <<>>, rejected |-> 0,
   out |-> [type |-> "none", data |-> <<>>, message |-> "none"]]

Refs == 1..(NumPeers + MaxInFlight)
NoRef == 0

\* a session object; a field the object does not have is held as its null
FreeObj ==
  [state |-> "free", step |-> "none", currentCategory |-> NoCategory,
   selectedMaterial |-> NoMaterial, materials |-> <<>>, promoCode |-> 0]
NewPurchaseSession ==
  [state |-> "nclex_purchase", step |-> "category_selection", currentCategory |-> NoCategory,
   selectedMaterial |-> NoMaterial, materials |-> <<>>, promoCode |-> 0]
NewQuestionSession == [FreeObj EXCEPT !.state = "question_generation", !.step = "ask_topic"]
CompletedSession == [FreeObj EXCEPT !.state = "completed"]

\* a user document in memory or in the store; downloadedMaterials is the
\* download history; copies counts the stored documents with the telegramId;
\* lastActive is held as the slot of the handler whose save set it (0: none)
NoUserDoc == [exists |-> FALSE, downloadedMaterials |-> <<>>, copies |-> 0, lastActive |-> 0]

NoCounters == [downloads |-> 0, purchases |-> 0, revenue |-> 0, history |-> 0]

\* a handler in progress: ctx and the locals that live across its awaits.
\* replies, fails, invoked, sent, tracked, before and pre record what the handler did
\* and what it started from.
IdleHandler ==
  [pc |-> "idle", user |-> 0, text |-> 0, route |-> "none", session |-> NoRef,
   dbUser |-> NoUserDoc, isNew |-> FALSE, say |-> "none",
   selectedCategory |-> NoCategory, material |-> NoMaterial, size |-> 0,
   doc |-> [downloads |-> 0, purchases |-> 0, revenue |-> 0],
   replies |-> <<>>, fails |-> {}, invoked |-> FALSE, sent |-> FALSE, tracked |-> FALSE,
   before |-> FreeObj, pre |-> NoCounters]

NoLast ==
  [user |-> 0, text |-> 0, route |-> "none", outcome |-> "none",
   before |-> FreeObj, after |-> FreeObj,
   replies |-> <<>>, fails |-> {}, invoked |-> FALSE, sent |-> FALSE, tracked |-> FALSE,
   material |-> NoMaterial, size |-> 0, pre |-> NoCounters]

\* a request of the admin HTTP API in progress: the route, the item of
\* req.params.id (or the item an upload created), req.body (its place in
\* Bodies) and the locals that live across its awaits: the document read
\* (material), the GridFS file written or to delete, the revenue computed
IdleRequest ==
  [pc |-> "idle", route |-> "none", id |-> 0, body |-> 0, fileId |-> 0,
   material |-> AbsentDoc, revenueIncrement |-> 0, status |-> 0]

InitRequests == [r \in Slots |-> IdleRequest]
\* the responses sent: how many, per item the 200 responses of the two
\* increment endpoints, and the request answered last with its status
InitResponses ==
  [served |-> 0,
   download |-> [m \in MatIds |-> 0],
   purchase |-> [m \in MatIds |-> 0],
   last |-> IdleRequest]

\* the references something still holds; every other object is garbage
Live(map, hs) ==
  {map[u] : u \in DOMAIN map} \cup {hs[s].session : s \in Slots}

Collect(hp, map, hs) ==
  [r \in Refs |-> IF r \in Live(map, hs) THEN hp[r] ELSE FreeObj]

\* the reference a `{ ... }` object literal gets
NewRef(map, hs) == CHOOSE r \in Refs : r \notin Live(map, hs) /\ \A q \in Refs : q < r => q \in Live(map, hs)

Init ==
  /\ userSessions = [u \in Users |-> NoRef]
  /\ heap = [r \in Refs |-> FreeObj]
  /\ Material = InitMaterial
  /\ User = [u \in Users |-> NoUserDoc]
  /\ gfs = InitGfs
  /\ inflight = [s \in Slots |-> IdleHandler]
  /\ last = NoLast
  /\ requests = InitRequests
  /\ responses = InitResponses
  /\ proc = Running
  /\ call = IdleCall

\* ---------------------------------------------------------------- helpers
Busy == {s \in Slots : inflight[s].pc # "idle"}

\* ctx.reply / ctx.replyWithMarkdown / ctx.replyWithDocument was called with
\* the pending message and resolved (ok) or rejected
Said(h, ok) ==
  [h EXCEPT !.replies = Append(@, [kind |-> h.say, ok |-> ok]),
            !.fails = IF ok THEN @ ELSE @ \cup {"chat"}]

\* the object userSessions.get(userId) returns, FreeObj standing for undefined
SessionOf(map, hp, u) == IF map[u] = NoRef THEN FreeObj ELSE hp[map[u]]

\* the handler goes on (to its next await) with h2
Goto(s, h2, map, hp) ==
  /\ inflight' = [inflight EXCEPT ![s] = h2]
  /\ userSessions' = map
  /\ heap' = Collect(hp, map, inflight')
  /\ last' = last
  /\ UNCHANGED <<apiVars, svcVars>>

\* the handler's promise settles: resolved ("returned") or rejected ("threw")
Done(s, h, outcome, map, hp) ==
  /\ inflight' = [inflight EXCEPT ![s] = IdleHandler]
  /\ userSessions' = map
  /\ heap' = Collect(hp, map, inflight')
  /\ last' = [user |-> h.user, text |-> h.text, route |-> h.route, outcome |-> outcome,
              before |-> h.before, after |-> SessionOf(map, hp, h.user),
              replies |-> h.replies, fails |-> h.fails,
              invoked |-> h.invoked, sent |-> h.sent, tracked |-> h.tracked,
              material |-> h.material, size |-> h.size, pre |-> h.pre]
  /\ UNCHANGED <<apiVars, svcVars>>

\* userSessions.set(userId, { ...a new object... })
PutNew(map, hp, hs, u, obj) ==
  LET r == NewRef(map, hs)
  IN [map |-> [map EXCEPT ![u] = r], heap |-> [hp EXCEPT ![r] = obj]]

\* Math.floor(100000 + Math.random() * 900000), Math.random() being k / RandSamples
PromoCode(k) == 100000 + ((k * 900000) \div RandSamples)

\* ------------------------------------------------------- update and middleware
\* an update of user u arrives and the user middleware starts: User.findOne is
\* awaited.  At most `cap` updates are handled at a time.  The text of the
\* update is drawn where the code first reads it, after the middleware.
Receive(u, cap) ==
  /\ Cardinality(Busy) < cap
  /\ \A m \in MatIds : Material[m].downloads < MaxCount
  /\ LET s == CHOOSE x \in Slots : x \notin Busy /\ \A y \in Slots : y < x => y \in Busy
     IN inflight' = [inflight EXCEPT ![s] =
                       [IdleHandler EXCEPT !.pc = "mw_findOne", !.user = u]]
  /\ last' = NoLast
  /\ UNCHANGED <<userSessions, heap, Material, User, gfs, requests, responses, proc, call>>

\* User.findOne settles: the user is found (lastActive is set), or a new User
\* is built, and user.save() is awaited; or it rejects and next() runs with no
\* ctx.dbUser
MwFindOne(s) ==
  LET h == inflight[s]
  IN /\ h.pc = "mw_findOne"
     /\ \E ok \in BOOLEAN :
          inflight' = [inflight EXCEPT ![s] =
            IF ~ok THEN [h EXCEPT !.pc = "route", !.fails = @ \cup {"user"}]
            ELSE IF User[h.user].exists
              THEN [h EXCEPT !.pc = "mw_save", !.isNew = FALSE,
                             !.dbUser = [User[h.user] EXCEPT !.lastActive = s]]
              ELSE [h EXCEPT !.pc = "mw_save", !.isNew = TRUE,
                             !.dbUser = [NoUserDoc EXCEPT !.exists = TRUE, !.lastActive = s]]]
     /\ UNCHANGED <<userSessions, heap, Material, User, gfs, last, requests, responses, proc, call>>

\* the paths of userSchema: what user.save() writes
UserSchemaPaths ==
  {"telegramId", "name", "email", "level", "purchasedMaterials", "progress", "lastActive"}

\* the stored document after save() of the in-memory document doc, of which
\* the paths in `modified` were set since it was loaded or built: the
\* modified paths of the schema are written, and a new document is inserted
SaveUser(stored, doc, modified, isNew) ==
  LET written == modified \cap UserSchemaPaths
  IN [exists |-> TRUE,
      copies |-> IF isNew THEN stored.copies + 1 ELSE stored.copies,
      lastActive |-> IF "lastActive" \in written THEN doc.lastActive ELSE stored.lastActive,
      downloadedMaterials |->
        IF "downloadedMaterials" \in written
          THEN doc.downloadedMaterials ELSE stored.downloadedMaterials]

\* the unique index on telegramId rejects the insert of a new document
DuplicateKey(stored, isNew) == isNew /\ stored.copies >= 1

\* user.save() settles; telegramId is unique, so saving a new User fails when
\* the store already holds one.  ctx.dbUser is set only when it resolved.
MwSave(s) ==
  LET h == inflight[s]
  IN /\ h.pc = "mw_save"
     /\ \E ok \in BOOLEAN :
          IF ok /\ ~DuplicateKey(User[h.user], h.isNew)
            THEN /\ User' = [User EXCEPT ![h.user] =
                                SaveUser(@, h.dbUser, {"lastActive"}, h.isNew)]
                 /\ inflight' = [inflight EXCEPT ![s] = [h EXCEPT !.pc = "route"]]
            ELSE /\ User' = User
                 /\ inflight' = [inflight EXCEPT ![s] =
                                   [h EXCEPT !.pc = "route", !.dbUser = NoUserDoc,
                                             !.fails = @ \cup {IF ok THEN "duplicate"
                                                                    ELSE "user"}]]
     /\ UNCHANGED <<userSessions, heap, Material, gfs, last, requests, responses, proc, call>>

\* ----------------------------------------------------------------- commands
\* bot.command('buy')
CommandBuy(s, t) ==
  LET h == [inflight[s] EXCEPT !.text = t]
      new == PutNew(userSessions, heap, inflight, h.user, NewPurchaseSession)
  IN /\ h.pc = "route"
     /\ Input[t].buyCommand
     /\ Goto(s, [h EXCEPT !.pc = "reply_final", !.route = "command_buy", !.say = "buy_prompt",
                          !.before = SessionOf(userSessions, heap, h.user)],
             new.map, new.heap)
     /\ UNCHANGED <<Material, User, gfs>>

\* bot.command('questions')
CommandQuestions(s, t) ==
  LET h == [inflight[s] EXCEPT !.text = t]
      new == PutNew(userSessions, heap, inflight, h.user, NewQuestionSession)
  IN /\ h.pc = "route"
     /\ Input[t].questionsCommand
     /\ Goto(s, [h EXCEPT !.pc = "reply_final", !.route = "command_questions",
                          !.say = "questions_prompt",
                          !.before = SessionOf(userSessions, heap, h.user)],
             new.map, new.heap)
     /\ UNCHANGED <<Material, User, gfs>>

IsTextUpdate(t) == ~Input[t].buyCommand /\ ~Input[t].questionsCommand

TextRoute(session, t) ==
  IF session.state = "nclex_purchase" THEN "purchase"
  ELSE IF session.state = "question_generation" THEN "question"
  ELSE Input[t].keyword

\* ------------------------------------------------------------ purchase flow
\* displayNCLEXMaterials up to its reply: the heap after it, and the reply
displayNCLEXMaterials(map, hp, u, materials) ==
  IF Len(materials) = 0 THEN [heap |-> hp, say |-> "no_materials"]
  ELSE [heap |-> IF map[u] = NoRef THEN hp
                 ELSE [hp EXCEPT ![map[u]] =
                         [@ EXCEPT !.state = "nclex_purchase", !.step = "material_selection",
                                   !.materials = materials]],
        say |-> "materials_list"]

\* the test of the material_selection case on the parsed number
BadSelection(selectedNumber, session) ==
  isNaN(selectedNumber) \/ selectedNumber < 1 \/ selectedNumber > Len(session.materials)

\* a selection that indexes the catalog instead of the candidate list
SelectedItemCatalog(session, selectedNumber) == Lean(InitMaterial, selectedNumber)

\* session.materials[selectedNumber - 1]
SelectedItem(session, selectedNumber) == session.materials[selectedNumber]

\* a "back" that restarts the flow from any step
BackRestart(session) ==
  [session EXCEPT !.step = "category_selection", !.currentCategory = NoCategory,
                  !.selectedMaterial = NoMaterial, !.materials = <<>>]

\* the session after the input "back", in material_selection or confirmation
Back(session) ==
  IF session.step = "material_selection"
    THEN [session EXCEPT !.step = "category_selection", !.currentCategory = NoCategory]
    ELSE [session EXCEPT !.step = "material_selection", !.selectedMaterial = NoMaterial]

\* a confirmation that leaves the session as it is while the file is delivered
DownloadingUnmarked(session) == session

\* session.step = 'downloading', before the first await of the confirmation
Downloading(session) == [session EXCEPT !.step = "downloading"]

\* handleNCLEXPurchaseFlow from its entry to its first await, on the session
\* object it was given: o is the object after it, put tells whether
\* userSessions.set(userId, session) ran, display whether
\* displayNCLEXMaterials(ctx, session.materials, ...) is called, say is the
\* reply it sends and pc where it waits ("end": it returns with no reply).
\* t is the update's text, k the sample of Math.random().
PurchaseFlowSync(session, t, k) ==
  LET lower == Input[t].lower
      stay == [o |-> session, put |-> FALSE, display |-> FALSE, cat |-> NoCategory,
               say |-> "none", pc |-> "end"]
      selectedCategory == Input[t].selectedCategory
      selectedNumber == Input[t].selectedNumber
  IN IF lower = StrBack /\ session.step = "material_selection"
       THEN [stay EXCEPT !.o = Back(session),
                         !.put = TRUE, !.say = "back_to_categories", !.pc = "reply_final"]
     ELSE IF lower = StrBack /\ session.step = "confirmation"
       THEN [stay EXCEPT !.o = Back(session),
                         !.put = TRUE, !.display = TRUE, !.pc = "reply_final"]
     ELSE IF session.step = "category_selection"
       THEN IF selectedCategory # NoCategory
              THEN [stay EXCEPT !.o = [session EXCEPT !.currentCategory = selectedCategory,
                                                      !.step = "material_selection"],
                                !.put = TRUE, !.cat = selectedCategory,
                                !.say = "searching", !.pc = "reply_searching"]
              ELSE [stay EXCEPT !.say = "category_reprompt", !.pc = "reply_final"]
     ELSE IF session.step = "material_selection"
       THEN IF BadSelection(selectedNumber, session)
              THEN [stay EXCEPT !.say = "select_reprompt", !.pc = "reply_final"]
              ELSE [stay EXCEPT !.o = [session EXCEPT
                                         !.selectedMaterial = SelectedItem(session, selectedNumber),
                                         !.step = "confirmation",
                                         !.promoCode = PromoCode(k)],
                                !.put = TRUE, !.say = "confirmation", !.pc = "reply_final"]
     ELSE IF session.step = "confirmation"
       THEN IF lower = StrDownload
              THEN [stay EXCEPT !.o = Downloading(session),
                                !.put = TRUE, !.say = "downloading", !.pc = "reply_downloading"]
              ELSE [stay EXCEPT !.say = "confirm_reprompt", !.pc = "reply_final"]
     ELSE stay

\* bot.on('text') with a session in state nclex_purchase: handleNCLEXPurchaseFlow
\* runs to its first await
handleNCLEXPurchaseFlow(s, t) ==
  LET h == [inflight[s] EXCEPT !.text = t]
      u == h.user
      session == SessionOf(userSessions, heap, u)
      ref == userSessions[u]
  IN /\ h.pc = "route"
     /\ IsTextUpdate(t)
     /\ TextRoute(session, t) = "purchase"
     /\ \E k \in 0..(RandSamples - 1) :
          LET r == PurchaseFlowSync(session, t, k)
              map2 == IF r.put THEN [userSessions EXCEPT ![u] = ref] ELSE userSessions
              hp2 == [heap EXCEPT ![ref] = r.o]
              d == displayNCLEXMaterials(map2, hp2, u, r.o.materials)
              h2 == [h EXCEPT !.route = "purchase", !.session = ref, !.before = session,
                              !.selectedCategory = r.cat, !.pc = r.pc,
                              !.say = IF r.display THEN d.say ELSE r.say]
          IN IF r.pc = "end"
               THEN Done(s, h2, "returned", map2, hp2)
               ELSE Goto(s, h2, map2, IF r.display THEN d.heap ELSE hp2)
     /\ UNCHANGED <<Material, User, gfs>>

\* a catch that clears the whole map
OuterCatchAll(s, h, map, hp) ==
  Goto(s, [h EXCEPT !.pc = "reply_generic", !.say = "generic_retry"],
       [u \in DOMAIN map |-> NoRef], hp)

\* the catch of handleNCLEXPurchaseFlow: the session is deleted and the retry
\* message is sent
OuterCatch(s, h, map, hp) ==
  Goto(s, [h EXCEPT !.pc = "reply_generic", !.say = "generic_retry"],
       [map EXCEPT ![h.user] = NoRef], hp)

\* `return ctx.replyWithMarkdown(...)` (and the reply of a returned
\* displayNCLEXMaterials, and the replies of the handlers that have no try
\* around them): the handler ends with the reply, resolved or rejected
ReplyFinal(s) ==
  LET h == inflight[s]
  IN /\ h.pc = "reply_final"
     /\ \E ok \in BOOLEAN :
          Done(s, Said(h, ok), IF ok THEN "returned" ELSE "threw", userSessions, heap)
     /\ UNCHANGED <<Material, User, gfs>>

\* await ctx.replyWithMarkdown("Selected ... Searching ...") settles
ReplySearching(s) ==
  LET h == inflight[s]
  IN /\ h.pc = "reply_searching"
     /\ \E ok \in BOOLEAN :
          IF ok THEN Goto(s, [Said(h, ok) EXCEPT !.pc = "find_materials"], userSessions, heap)
          ELSE OuterCatch(s, Said(h, ok), userSessions, heap)
     /\ UNCHANGED <<Material, User, gfs>>

\* await Material.find({ category }).limit(10).lean() settles
FindMaterials(s) ==
  LET h == inflight[s]
      u == h.user
      materials == FindByCategory(Material, h.selectedCategory)
      hp2 == [heap EXCEPT ![h.session] = [@ EXCEPT !.materials = materials]]
      map2 == [userSessions EXCEPT ![u] = h.session]
      d == displayNCLEXMaterials(map2, hp2, u, materials)
  IN /\ h.pc = "find_materials"
     /\ \E ok \in BOOLEAN :
          IF ~ok
            THEN OuterCatch(s, [h EXCEPT !.fails = @ \cup {"catalog"}], userSessions, heap)
          ELSE IF Len(materials) = 0
            THEN Goto(s, [h EXCEPT !.pc = "reply_no_materials", !.say = "no_materials"],
                      userSessions, heap)
          ELSE Goto(s, [h EXCEPT !.pc = "reply_final", !.say = d.say], map2, d.heap)
     /\ UNCHANGED <<Material, User, gfs>>

\* a flow that leaves the session as it is after "No materials found"
ReplyNoMaterialsStay(s) ==
  LET h == inflight[s]
  IN /\ h.pc = "reply_no_materials"
     /\ \E ok \in BOOLEAN :
          IF ok THEN Done(s, Said(h, ok), "returned",
                          [userSessions EXCEPT ![h.user] = h.session], heap)
          ELSE OuterCatch(s, Said(h, ok), userSessions, heap)
     /\ UNCHANGED <<Material, User, gfs>>

\* await ctx.replyWithMarkdown("No materials found ...") settles; then the
\* session goes back to category_selection
ReplyNoMaterials(s) ==
  LET h == inflight[s]
      hp2 == [heap EXCEPT ![h.session] =
                [@ EXCEPT !.step = "category_selection", !.currentCategory = NoCategory]]
  IN /\ h.pc = "reply_no_materials"
     /\ \E ok \in BOOLEAN :
          IF ok THEN Done(s, Said(h, ok), "returned",
                          [userSessions EXCEPT ![h.user] = h.session], hp2)
          ELSE OuterCatch(s, Said(h, ok), userSessions, heap)
     /\ UNCHANGED <<Material, User, gfs>>

\* await ctx.reply(retry message) of the catch settles
ReplyGeneric(s) ==
  LET h == inflight[s]
  IN /\ h.pc = "reply_generic"
     /\ \E ok \in BOOLEAN :
          Done(s, Said(h, ok), IF ok THEN "returned" ELSE "threw", userSessions, heap)
     /\ UNCHANGED <<Material, User, gfs>>

\* ------------------------------------------------------------ file delivery
\* the counters of an item and the length of the user's stored history
CountersOf(docs, users, m, u) ==
  IF m = 0 THEN NoCounters
  ELSE [downloads |-> docs[m].downloads, purchases |-> docs[m].purchases,
        revenue |-> docs[m].revenue, history |-> Len(users[u].downloadedMaterials)]

\* the catch of sendMaterialFile: an error message is sent
InnerCatch(s, h, map, hp) ==
  Goto(s, [h EXCEPT !.pc = "reply_delivery_error", !.say = "delivery_error"], map, hp)

\* await ctx.replyWithMarkdown("Downloading ...") settles; then
\* sendMaterialFile(ctx, session.selectedMaterial) runs to bucket.find
ReplyDownloading(s) ==
  LET h == inflight[s]
      material == heap[h.session].selectedMaterial
      h2 == [Said(h, TRUE) EXCEPT !.invoked = TRUE, !.material = material,
                                  !.pre = CountersOf(Material, User, material.id, h.user)]
  IN /\ h.pc = "reply_downloading"
     /\ \E ok \in BOOLEAN :
          IF ~ok THEN OuterCatch(s, Said(h, ok), userSessions, heap)
          ELSE IF material = NoMaterial THEN InnerCatch(s, h2, userSessions, heap)
          ELSE Goto(s, [h2 EXCEPT !.pc = "bucket_find"], userSessions, heap)
     /\ UNCHANGED <<Material, User, gfs>>

\* await bucket.find({ _id: fileId }).toArray() settles
BucketFind(s) ==
  LET h == inflight[s]
  IN /\ h.pc = "bucket_find"
     /\ \E ok \in BOOLEAN :
          IF ~ok
            THEN InnerCatch(s, [h EXCEPT !.fails = @ \cup {"content_unreadable"}],
                            userSessions, heap)
          ELSE IF gfs[h.material.fileId] = FileAbsent
            THEN Goto(s, [h EXCEPT !.fails = @ \cup {"content_missing"},
                                   !.pc = "reply_delivery_end", !.say = "file_not_found"],
                      userSessions, heap)
          ELSE Goto(s, [h EXCEPT !.pc = "read_stream"], userSessions, heap)
     /\ UNCHANGED <<Material, User, gfs>>

\* a delivery with no size limit
NeverTooLarge(length) == FALSE

\* fileBuffer.length > maxFileSize
TooLarge(length) == length > maxFileSize

\* the download stream ends or errors; the buffer is measured
ReadStream(s) ==
  LET h == inflight[s]
      length == gfs[h.material.fileId]
  IN /\ h.pc = "read_stream"
     /\ \E ok \in BOOLEAN :
          IF ~ok \/ length = FileAbsent
            THEN InnerCatch(s, [h EXCEPT !.fails = @ \cup {"content_unreadable"}],
                            userSessions, heap)
          ELSE IF TooLarge(length)
            THEN Goto(s, [h EXCEPT !.size = length, !.fails = @ \cup {"too_large"},
                                   !.pc = "reply_delivery_end", !.say = "too_large"],
                      userSessions, heap)
          ELSE Goto(s, [h EXCEPT !.size = length, !.pc = "send_document", !.say = "document"],
                    userSessions, heap)
     /\ UNCHANGED <<Material, User, gfs>>

\* await ctx.replyWithChatAction / ctx.replyWithDocument settles
SendDocument(s) ==
  LET h == inflight[s]
  IN /\ h.pc = "send_document"
     /\ \E ok \in BOOLEAN :
          IF ok THEN Goto(s, [Said(h, ok) EXCEPT !.sent = TRUE, !.pc = "stats_find"],
                          userSessions, heap)
          ELSE InnerCatch(s, Said(h, ok), userSessions, heap)
     /\ UNCHANGED <<Material, User, gfs>>

\* the counters updateMaterialStats computes on the document it loaded
updateMaterialStats(material) ==
  LET priceValue == ParseFloat(material.price)
  IN [downloads |-> material.downloads + 1,
      purchases |-> IF material.price # StrFree THEN material.purchases + 1
                    ELSE material.purchases,
      revenue |-> IF material.price # StrFree /\ ~isNaN(priceValue)
                    THEN material.revenue + priceValue ELSE material.revenue]

\* a tracking that is skipped when the statistics could not be updated
TrackDownloadUnlessFailed(h) ==
  IF h.dbUser.exists /\ "stats" \notin h.fails
    THEN [h EXCEPT !.dbUser.downloadedMaterials =
                     Append(@, [materialId |-> h.material.id, price |-> h.material.price]),
                   !.pc = "user_save", !.tracked = TRUE]
    ELSE [h EXCEPT !.pc = "reply_delivery_end", !.say = "download_complete"]

\* "Track user download history" up to user.save(): the entry is pushed on
\* ctx.dbUser when there is one; otherwise the follow-up reply is next
TrackDownload(h) ==
  IF h.dbUser.exists
    THEN [h EXCEPT !.dbUser.downloadedMaterials =
                     Append(@, [materialId |-> h.material.id, price |-> h.material.price]),
                   !.pc = "user_save", !.tracked = TRUE]
    ELSE [h EXCEPT !.pc = "reply_delivery_end", !.say = "download_complete"]

\* await Material.findById(materialId) of updateMaterialStats settles
StatsFind(s) ==
  LET h == inflight[s]
      m == h.material.id
  IN /\ h.pc = "stats_find"
     /\ \E ok \in BOOLEAN :
          IF ok /\ Material[m].exists
            THEN Goto(s, [h EXCEPT !.doc = updateMaterialStats(Material[m]),
                                   !.pc = "stats_save"], userSessions, heap)
            ELSE Goto(s, TrackDownload([h EXCEPT !.fails = @ \cup {"stats"}]),
                      userSessions, heap)
     /\ UNCHANGED <<Material, User, gfs>>

\* await material.save() of updateMaterialStats settles
StatsSave(s) ==
  LET h == inflight[s]
      m == h.material.id
  IN /\ h.pc = "stats_save"
     /\ \E ok \in BOOLEAN :
          IF ok /\ Material[m].exists
            THEN /\ Material' = [Material EXCEPT ![m].downloads = h.doc.downloads,
                                                 ![m].purchases = h.doc.purchases,
                                                 ![m].revenue = h.doc.revenue]
                 /\ Goto(s, TrackDownload(h), userSessions, heap)
            ELSE /\ Material' = Material
                 /\ Goto(s, TrackDownload([h EXCEPT !.fails = @ \cup {"stats"}]),
                         userSessions, heap)
     /\ UNCHANGED <<User, gfs>>

\* await user.save() of the history tracking settles
UserSave(s) ==
  LET h == inflight[s]
      next == [h EXCEPT !.pc = "reply_delivery_end", !.say = "download_complete"]
  IN /\ h.pc = "user_save"
     /\ \E ok \in BOOLEAN :
          IF ok THEN /\ User' = [User EXCEPT ![h.user] =
                                    SaveUser(@, h.dbUser, {"downloadedMaterials"}, FALSE)]
                     /\ Goto(s, next, userSessions, heap)
          ELSE /\ User' = User
               /\ Goto(s, [next EXCEPT !.fails = @ \cup {"history"}], userSessions, heap)
     /\ UNCHANGED <<Material, gfs>>

\* a flow that leaves the session stored when sendMaterialFile has returned
ReplyDeliveryEndKeep(s) ==
  LET h == inflight[s]
  IN /\ h.pc = "reply_delivery_end"
     /\ \E ok \in BOOLEAN :
          IF ok THEN Done(s, Said(h, ok), "returned", userSessions, heap)
          ELSE InnerCatch(s, Said(h, ok), userSessions, heap)
     /\ UNCHANGED <<Material, User, gfs>>

\* a reply that ends sendMaterialFile settles ("not found", "too large",
\* "Download complete"): sendMaterialFile returns and the session is deleted
ReplyDeliveryEnd(s) ==
  LET h == inflight[s]
  IN /\ h.pc = "reply_delivery_end"
     /\ \E ok \in BOOLEAN :
          IF ok THEN Done(s, Said(h, ok), "returned",
                          [userSessions EXCEPT ![h.user] = NoRef], heap)
          ELSE InnerCatch(s, Said(h, ok), userSessions, heap)
     /\ UNCHANGED <<Material, User, gfs>>

\* the reply of sendMaterialFile's catch settles: resolved, sendMaterialFile
\* returns and the session is deleted; rejected, the error reaches the catch
\* of handleNCLEXPurchaseFlow
ReplyDeliveryError(s) ==
  LET h == inflight[s]
  IN /\ h.pc = "reply_delivery_error"
     /\ \E ok \in BOOLEAN :
          IF ok THEN Done(s, Said(h, ok), "returned",
                          [userSessions EXCEPT ![h.user] = NoRef], heap)
          ELSE OuterCatch(s, Said(h, ok), userSessions, heap)
     /\ UNCHANGED <<Material, User, gfs>>

\* --------------------------------------------- text handler, other branches
\* "Clear any completed sessions": the Map after it
ClearCompleted(map, session, u) ==
  IF session.state = "completed" THEN [map EXCEPT ![u] = NoRef] ELSE map

\* the text handler of a text that is no command, with no purchase or
\* question session: the part common to its four branches
TextEnter(s, t, route) ==
  LET h == [inflight[s] EXCEPT !.text = t]
  IN /\ h.pc = "route"
     /\ IsTextUpdate(t)
     /\ TextRoute(SessionOf(userSessions, heap, h.user), t) = route

\* the question_generation branch: handleQuestionGeneration to its first await
handleQuestionGeneration(s, t) ==
  LET h == [inflight[s] EXCEPT !.text = t]
      session == SessionOf(userSessions, heap, h.user)
      h2 == [h EXCEPT !.route = "question", !.session = userSessions[h.user],
                      !.before = session]
  IN /\ TextEnter(s, t, "question")
     /\ IF session.step = "ask_topic"
          THEN Goto(s, [h2 EXCEPT !.pc = "q_reply_generating", !.say = "generating"],
                    userSessions, heap)
          ELSE Done(s, h2, "returned", userSessions, heap)
     /\ UNCHANGED <<Material, User, gfs>>

\* an awaited reply of handleQuestionGeneration settles; its catch deletes
\* the session and sends an error message
QuestionReply(s) ==
  LET h == inflight[s]
  IN /\ h.pc \in {"q_reply_generating", "q_reply_questions", "q_reply_more"}
     /\ \E ok \in BOOLEAN :
          IF ~ok
            THEN Goto(s, [Said(h, ok) EXCEPT !.pc = "reply_final", !.say = "question_error"],
                      [userSessions EXCEPT ![h.user] = NoRef], heap)
          ELSE IF h.pc = "q_reply_generating"
            THEN Goto(s, [Said(h, ok) EXCEPT !.pc = "q_generate"], userSessions, heap)
          ELSE IF h.pc = "q_reply_questions"
            THEN Goto(s, [Said(h, ok) EXCEPT !.pc = "q_reply_more", !.say = "more_prompt"],
                      userSessions, heap)
          ELSE Done(s, Said(h, ok), "returned", userSessions, heap)
     /\ UNCHANGED <<Material, User, gfs>>

\* await generateNCLEXQuestions(userInput) settles (it never rejects); the
\* session becomes { state: 'completed' }
QuestionGenerate(s) ==
  LET h == inflight[s]
      new == PutNew(userSessions, heap, inflight, h.user, CompletedSession)
  IN /\ h.pc = "q_generate"
     /\ Goto(s, [h EXCEPT !.pc = "q_reply_questions", !.say = "questions"],
             new.map, new.heap)
     /\ UNCHANGED <<Material, User, gfs>>

\* the "resume" branch: continueFromSession for a session (it can only be a
\* completed one here), else the greeting with user.name, which throws when
\* ctx.dbUser is undefined
TextResume(s, t) ==
  LET h == [inflight[s] EXCEPT !.text = t]
      session == SessionOf(userSessions, heap, h.user)
      map2 == ClearCompleted(userSessions, session, h.user)
      h2 == [h EXCEPT !.route = "resume", !.before = session]
  IN /\ TextEnter(s, t, "resume")
     /\ IF session.state = "free" /\ ~h.dbUser.exists
          THEN Done(s, h2, "threw", map2, heap)
          ELSE Goto(s, [h2 EXCEPT !.pc = "reply_final", !.say = "welcome_back"], map2, heap)
     /\ UNCHANGED <<Material, User, gfs>>

\* the "Buying flow detection" branch
TextBuy(s, t) ==
  LET h == [inflight[s] EXCEPT !.text = t]
      session == SessionOf(userSessions, heap, h.user)
      map2 == ClearCompleted(userSessions, session, h.user)
      new == PutNew(map2, heap, inflight, h.user, NewPurchaseSession)
  IN /\ TextEnter(s, t, "buy")
     /\ Goto(s, [h EXCEPT !.route = "buy", !.before = session,
                          !.pc = "reply_final", !.say = "buy_prompt"],
             new.map, new.heap)
     /\ UNCHANGED <<Material, User, gfs>>

\* the "Practice questions detection" branch, to its first reply
TextPractice(s, t) ==
  LET h == [inflight[s] EXCEPT !.text = t]
      session == SessionOf(userSessions, heap, h.user)
  IN /\ TextEnter(s, t, "practice")
     /\ Goto(s, [h EXCEPT !.route = "practice", !.before = session,
                          !.pc = "practice_reply", !.say = "generating"],
             ClearCompleted(userSessions, session, h.user), heap)
     /\ UNCHANGED <<Material, User, gfs>>

\* await ctx.reply("Generating ...") of the practice branch settles
PracticeReply(s) ==
  LET h == inflight[s]
  IN /\ h.pc = "practice_reply"
     /\ \E ok \in BOOLEAN :
          IF ok THEN Goto(s, [Said(h, ok) EXCEPT !.pc = "practice_generate"],
                          userSessions, heap)
          ELSE Done(s, Said(h, ok), "threw", userSessions, heap)
     /\ UNCHANGED <<Material, User, gfs>>

\* await generateNCLEXQuestions(text) of the practice branch settles
PracticeGenerate(s) ==
  LET h == inflight[s]
  IN /\ h.pc = "practice_generate"
     /\ Goto(s, [h EXCEPT !.pc = "reply_final", !.say = "questions"], userSessions, heap)
     /\ UNCHANGED <<Material, User, gfs>>

\* ------------------------------------------------------------- AI fallback
\* /\/buy|buy|purchase|payment/i.test(message)
AiPurchaseIntent(message) ==
  LET lower == ToLowerCase(message)
  IN Includes(lower, StrSlashBuy) \/ Includes(lower, StrBuy)
     \/ Includes(lower, StrPurchase) \/ Includes(lower, StrPayment)

\* selectedCategory of getNCLEXAIResponse: the number, else the last category
\* whose first 20 characters the message includes
AiSelectedCategory(message) ==
  LET hit(c) == Includes(ToLowerCase(message), Slice0(ToLowerCase(categories[c]), 20))
  IN IF IsCategoryNumber(Trim(message)) THEN DigitVal(Trim(message)[1])
     ELSE IF \E c \in 1..Len(categories) : hit(c)
       THEN CHOOSE c \in 1..Len(categories) :
              hit(c) /\ \A d \in (c + 1)..Len(categories) : ~hit(d)
     ELSE NoCategory

\* /^[0-9]+$/.test(s)
AllDigits(s) == Len(s) > 0 /\ \A i \in 1..Len(s) : IsDigit(s[i])

\* selectedMaterial of getNCLEXAIResponse, from context.materials
AiSelectedMaterial(message, context) ==
  LET index == ParseInt(Trim(message)) - 1
  IN IF AllDigits(Trim(message)) /\ index >= 0 /\ index < Len(context.materials)
       THEN context.materials[index + 1] ELSE NoMaterial

\* what findNCLEXMaterials resolves to: the category list, the bare array of
\* getNCLEXFallbackMaterials when no search token is left (as for the empty
\* query), else { type: 'materials', data }
findNCLEXMaterialsKind(userQuery, category) ==
  IF Includes(ToLowerCase(userQuery), StrSlashBuy) /\ category = NoCategory
    THEN "category_selection"
  ELSE IF Len(Trim(userQuery)) = 0 THEN "array"
  ELSE "materials"

\* handleNCLEXPurchase(user, category, selectedMaterial): the directive it
\* returns; docs is the catalog its search reads, k the sample of Math.random()
handleNCLEXPurchase(docs, category, selectedMaterial, k) ==
  LET none == [step |-> "error", category |-> NoCategory, materials |-> <<>>,
               material |-> NoMaterial, promoCode |-> 0]
      data == FindByCategory(docs, category)
  IN IF category = NoCategory THEN [none EXCEPT !.step = "category_selection"]
     ELSE IF selectedMaterial = NoMaterial
       THEN IF findNCLEXMaterialsKind(<<>>, category) = "materials" /\ Len(data) > 0
              THEN [none EXCEPT !.step = "material_selection", !.materials = data,
                                !.category = category]
              ELSE none
     ELSE [none EXCEPT !.step = "confirmation", !.promoCode = PromoCode(k),
                       !.material = selectedMaterial, !.category = category]

\* what getNCLEXAIResponse computes from the text of update t alone
AiInput ==
  [t \in TextIds |->
     [purchaseIntent |-> AiPurchaseIntent(Input[t].text),
      selectedCategory |-> AiSelectedCategory(Input[t].text)]]

\* getNCLEXAIResponse(user, message, context): a purchase directive, or the
\* reply of the study path ("study": it carries no session step the handler
\* knows)
getNCLEXAIResponse(docs, t, context, k) ==
  IF AiInput[t].purchaseIntent
    THEN LET sc == AiInput[t].selectedCategory
             sm == AiSelectedMaterial(Input[t].text, context)
         IN handleNCLEXPurchase(docs,
                                IF sc # NoCategory THEN sc ELSE context.currentCategory,
                                IF sm # NoMaterial THEN sm ELSE context.selectedMaterial, k)
    ELSE [step |-> "study", category |-> NoCategory, materials |-> <<>>,
          material |-> NoMaterial, promoCode |-> 0]

\* the default branch of the text handler, to its first reply
TextFallback(s, t) ==
  LET h == [inflight[s] EXCEPT !.text = t]
      session == SessionOf(userSessions, heap, h.user)
  IN /\ TextEnter(s, t, "fallback")
     /\ Goto(s, [h EXCEPT !.route = "fallback", !.before = session,
                          !.session = userSessions[h.user],
                          !.pc = "ai_reply_analyzing", !.say = "analyzing"],
             ClearCompleted(userSessions, session, h.user), heap)
     /\ UNCHANGED <<Material, User, gfs>>

\* an awaited reply of the default branch settles; its catch sends an apology
AiReply(s) ==
  LET h == inflight[s]
  IN /\ h.pc \in {"ai_reply_analyzing", "ai_reply_message"}
     /\ \E ok \in BOOLEAN :
          IF ~ok
            THEN Goto(s, [Said(h, ok) EXCEPT !.pc = "reply_final", !.say = "apology"],
                      userSessions, heap)
          ELSE IF h.pc = "ai_reply_analyzing"
            THEN Goto(s, [Said(h, ok) EXCEPT !.pc = "ai_response"], userSessions, heap)
          ELSE Done(s, Said(h, ok), "returned", userSessions, heap)
     /\ UNCHANGED <<Material, User, gfs>>

\* a default branch that stores a session in confirmation for the directive
\* that asks for a category
DirectiveSessionConfirm(r) ==
  IF r.step = "category_selection"
    THEN [NewPurchaseSession EXCEPT !.step = "confirmation"]
  ELSE FreeObj

\* the session the default branch stores for a directive (FreeObj: none)
DirectiveSession(r) ==
  IF r.step = "category_selection" THEN NewPurchaseSession
  ELSE IF r.step = "material_selection"
    THEN [NewPurchaseSession EXCEPT !.step = "material_selection",
                                    !.currentCategory = r.category, !.materials = r.materials]
  ELSE IF r.step = "confirmation"
    THEN [NewPurchaseSession EXCEPT !.step = "confirmation", !.currentCategory = r.category,
                                    !.selectedMaterial = r.material, !.promoCode = r.promoCode]
  ELSE FreeObj

\* await getNCLEXAIResponse(ctx.dbUser, text, session || {}) settles; the
\* study path rejects when the catalog cannot be read
AiResponse(s) ==
  LET h == inflight[s]
      context == IF h.session = NoRef THEN FreeObj ELSE heap[h.session]
  IN /\ h.pc = "ai_response"
     /\ \E ok \in BOOLEAN, k \in 0..(RandSamples - 1) :
          LET r == getNCLEXAIResponse(Material, h.text, context, k)
              obj == DirectiveSession(r)
              new == PutNew(userSessions, heap, inflight, h.user, obj)
              h2 == [h EXCEPT !.pc = "ai_reply_message", !.say = "ai_message"]
          IN IF ~ok /\ r.step = "study"
               THEN Goto(s, [h EXCEPT !.fails = @ \cup {"catalog"},
                                      !.pc = "reply_final", !.say = "apology"],
                         userSessions, heap)
             ELSE IF obj = FreeObj THEN Goto(s, h2, userSessions, heap)
             ELSE Goto(s, h2, new.map, new.heap)
     /\ UNCHANGED <<Material, User, gfs>>

\* ---------------------------------------------------------- specification
\* the handler of the update is chosen and runs to its first await; t is the
\* text of the update
Route(s, t) ==
  \/ CommandBuy(s, t)
  \/ CommandQuestions(s, t)
  \/ handleNCLEXPurchaseFlow(s, t)
  \/ handleQuestionGeneration(s, t)
  \/ TextResume(s, t)
  \/ TextBuy(s, t)
  \/ TextPractice(s, t)
  \/ TextFallback(s, t)

\* an awaited call of the handler in slot s settles and the handler runs on
Step(s) ==
  \/ MwFindOne(s)
  \/ MwSave(s)
  \/ ReplyFinal(s)
  \/ ReplySearching(s)
  \/ FindMaterials(s)
  \/ ReplyNoMaterials(s)
  \/ ReplyGeneric(s)
  \/ ReplyDownloading(s)
  \/ BucketFind(s)
  \/ ReadStream(s)
  \/ SendDocument(s)
  \/ StatsFind(s)
  \/ StatsSave(s)
  \/ UserSave(s)
  \/ ReplyDeliveryEnd(s)
  \/ ReplyDeliveryError(s)
  \/ QuestionReply(s)
  \/ QuestionGenerate(s)
  \/ PracticeReply(s)
  \/ PracticeGenerate(s)
  \/ AiReply(s)
  \/ AiResponse(s)

\* updates are handled one at a time: the next is taken when the handler of
\* the previous one has settled
Next ==
  \/ \E u \in Users : Receive(u, 1)
  \/ \E s \in Slots, t \in TextIds : Route(s, t)
  \/ \E s \in Slots : Step(s)

Spec == Init /\ [][Next]_vars

\* ------------------------------------------------------------ admin HTTP API
\* topics.split(',')
RECURSIVE Split(_, _)
Split(s, sep) ==
  IF \A i \in 1..Len(s) : s[i] # sep THEN <<s>>
  ELSE LET i == CHOOSE k \in 1..Len(s) : s[k] = sep /\ \A j \in 1..(k - 1) : s[j] # sep
       IN <<SubSeq(s, 1, i - 1)>> \o Split(SubSeq(s, i + 1, Len(s)), sep)

\* the req.body values of the upload and edit requests (file is req.file); a
\* field that was not sent is the empty text
Bodies ==
  LET ok == [file |-> TRUE, title |-> <<"t">>, topics |-> <<"a", ",", "b">>,
             category |-> CatPsych, price |-> StrFree]
  IN << ok,                                                         \* 1
        [ok EXCEPT !.price = <<"1","2",".","5","0">>],              \* 2  "12.50"
        [ok EXCEPT !.price = <<"-","5">>],                          \* 3  "-5"
        [ok EXCEPT !.price = <<"1","2","a","b","c">>],              \* 4  "12abc"
        [ok EXCEPT !.price = <<"a","b","c">>],                      \* 5  "abc"
        [ok EXCEPT !.topics = <<"a", ",", ",">>],                   \* 6  "a,,"
        [ok EXCEPT !.category = <<"a","b","c">>],                   \* 7
        [ok EXCEPT !.title = <<>>],                                 \* 8
        [ok EXCEPT !.file = FALSE],                                 \* 9
        [ok EXCEPT !.price = <<>>, !.category = CatPhys] >>         \* 10
BodyIds == 1..Len(Bodies)

validCategories == {categories[c] : c \in 1..Len(categories)}

\* the price test of POST /upload and PUT /:id
PriceInvalid(price) == isNaN(ParseFloat(price)) /\ price # StrFree

\* what the handlers compute from each body, computed once per body: the checks
\* of POST /upload before its first await, those of PUT /:id, and whether
\* material.save() rejects the document built from the body (materialSchema:
\* title, category and price required, every element of topics required)
BodyInput ==
  [b \in BodyIds |->
     LET body == Bodies[b]
         topics == Split(body.topics, ",")
     IN [uploadRejects |-> \/ ~body.file
                           \/ body.title = <<>>
                           \/ body.topics = <<>>
                           \/ body.category = <<>>
                           \/ body.category \notin validCategories
                           \/ body.price = <<>>
                           \/ PriceInvalid(body.price),
         putRejects |-> \/ (body.price # <<>> /\ PriceInvalid(body.price))
                        \/ (body.category # <<>> /\ body.category \notin validCategories),
         saveRejects |-> \/ body.title = <<>>
                         \/ body.price = <<>>
                         \/ body.category \notin validCategories
                         \/ \E i \in DOMAIN topics : Trim(topics[i]) = <<>>,
         category |-> IF body.category \in validCategories
                        THEN CHOOSE c \in 1..Len(categories) : categories[c] = body.category
                        ELSE NoCategory,
         price |-> body.price]]

\* the requests in progress
Serving == {r \in Slots : requests[r].pc # "idle"}

\* a request can be taken by handler slot r: the lowest idle one, while the
\* run has requests left
Accepts(r) ==
  /\ requests[r].pc = "idle"
  /\ \A q \in Slots : q < r => requests[q].pc # "idle"
  /\ responses.served + Cardinality(Serving) < MaxRequests

\* res.status(status).json(...): the handler of request r ends
Respond(r, req, status) ==
  /\ requests' = [requests EXCEPT ![r] = IdleRequest]
  /\ responses' =
       [responses EXCEPT
          !.served = @ + 1,
          !.download = IF req.route = "increment-download" /\ status = 200
                         THEN [@ EXCEPT ![req.id] = @ + 1] ELSE @,
          !.purchase = IF req.route = "increment-purchase" /\ status = 200
                         THEN [@ EXCEPT ![req.id] = @ + 1] ELSE @,
          !.last = [req EXCEPT !.pc = "done", !.status = status]]
  /\ UNCHANGED <<botVars, svcVars>>

\* the request goes on to its next await
Continue(r, req) ==
  /\ requests' = [requests EXCEPT ![r] = req]
  /\ responses' = responses
  /\ UNCHANGED <<botVars, svcVars>>

\* the ids a new GridFS file and a new document can take: never used before
FreshFiles ==
  {f \in FileIds : /\ gfs[f] = FileAbsent
                   /\ \A m \in MatIds : Material[m].fileId # f
                   /\ \A r \in Slots : requests[r].fileId # f}
FreshIds == {m \in MatIds : Material[m].fileId = 0}
Uploading == {r \in Slots : requests[r].route = "upload"}

\* POST /upload to await uploadFile(): the checks of the fields
PostUpload(r, b) ==
  LET req == [IdleRequest EXCEPT !.route = "upload", !.body = b]
  IN /\ Accepts(r)
     /\ Cardinality(FreshFiles) > Cardinality(Uploading)
     /\ Cardinality(FreshIds) > Cardinality(Uploading)
     /\ IF BodyInput[b].uploadRejects
          THEN Respond(r, req, 400)
          ELSE Continue(r, [req EXCEPT !.pc = "upload_file"])
     /\ UNCHANGED <<Material, gfs>>

\* await uploadFile() settles: the bytes are in the bucket, or the stream failed
UploadFile(r) ==
  LET req == requests[r]
      f == CHOOSE x \in FreshFiles : \A y \in FreshFiles : x <= y
  IN /\ req.pc = "upload_file"
     /\ \E ok \in BOOLEAN :
          IF ok
            THEN /\ gfs' = [gfs EXCEPT ![f] = 1000]
                 /\ Continue(r, [req EXCEPT !.pc = "material_save", !.fileId = f])
            ELSE /\ gfs' = gfs
                 /\ Respond(r, req, 500)
     /\ UNCHANGED Material

\* await material.save() settles: validation by materialSchema, then the insert
MaterialSave(r) ==
  LET req == requests[r]
      m == CHOOSE x \in FreshIds : \A y \in FreshIds : x <= y
      doc == [exists |-> TRUE, category |-> BodyInput[req.body].category,
              price |-> BodyInput[req.body].price, fileId |-> req.fileId,
              downloads |-> 0, purchases |-> 0, revenue |-> 0]
  IN /\ req.pc = "material_save"
     /\ IF BodyInput[req.body].saveRejects
          THEN /\ Material' = Material
               /\ Respond(r, req, 500)
          ELSE \E ok \in BOOLEAN :
                 IF ok
                   THEN /\ Material' = [Material EXCEPT ![m] = doc]
                        /\ Respond(r, [req EXCEPT !.id = m], 201)
                   ELSE /\ Material' = Material
                        /\ Respond(r, req, 500)
     /\ UNCHANGED gfs

\* PUT /:id to await Material.findByIdAndUpdate
PutMaterial(r, m, b) ==
  LET req == [IdleRequest EXCEPT !.route = "edit", !.id = m, !.body = b]
  IN /\ Accepts(r)
     /\ IF BodyInput[b].putRejects
          THEN Respond(r, req, 400)
          ELSE Continue(r, [req EXCEPT !.pc = "find_update"])
     /\ UNCHANGED <<Material, gfs>>

\* await Material.findByIdAndUpdate(id, updateData, ...) settles; updateData
\* holds the fields of the body that are not empty
FindByIdAndUpdate(r) ==
  LET req == requests[r]
      in == BodyInput[req.body]
  IN /\ req.pc = "find_update"
     /\ \E ok \in BOOLEAN :
          IF ~ok THEN Material' = Material /\ Respond(r, req, 500)
          ELSE IF ~Material[req.id].exists THEN Material' = Material /\ Respond(r, req, 404)
          ELSE /\ Material' = [Material EXCEPT ![req.id] =
                                 [@ EXCEPT !.category = IF in.category # NoCategory
                                                          THEN in.category ELSE @,
                                           !.price = IF in.price # <<>> THEN in.price ELSE @]]
               /\ Respond(r, req, 200)
     /\ UNCHANGED gfs

\* DELETE /:id to await Material.findById
DeleteMaterial(r, m) ==
  /\ Accepts(r)
  /\ Continue(r, [IdleRequest EXCEPT !.route = "delete", !.id = m, !.pc = "delete_find"])
  /\ UNCHANGED <<Material, gfs>>

\* await Material.findById(id) of DELETE /:id settles
DeleteFind(r) ==
  LET req == requests[r]
  IN /\ req.pc = "delete_find"
     /\ \E ok \in BOOLEAN :
          IF ~ok THEN Respond(r, req, 500)
          ELSE IF ~Material[req.id].exists THEN Respond(r, req, 404)
          ELSE Continue(r, [req EXCEPT !.pc = "bucket_delete",
                                       !.material = Material[req.id],
                                       !.fileId = Material[req.id].fileId])
     /\ UNCHANGED <<Material, gfs>>

\* await bucket.delete(material.fileId) settles; it rejects when there is no
\* such file
BucketDelete(r) ==
  LET req == requests[r]
  IN /\ req.pc = "bucket_delete"
     /\ \E ok \in BOOLEAN :
          IF ok /\ gfs[req.fileId] # FileAbsent
            THEN /\ gfs' = [gfs EXCEPT ![req.fileId] = FileAbsent]
                 /\ Continue(r, [req EXCEPT !.pc = "find_delete"])
            ELSE /\ gfs' = gfs
                 /\ Respond(r, req, 500)
     /\ UNCHANGED Material

\* await Material.findByIdAndDelete(id) settles
FindByIdAndDelete(r) ==
  LET req == requests[r]
  IN /\ req.pc = "find_delete"
     /\ \E ok \in BOOLEAN :
          IF ok
            THEN /\ Material' = [Material EXCEPT ![req.id].exists = FALSE]
                 /\ Respond(r, req, 200)
            ELSE /\ Material' = Material
                 /\ Respond(r, req, 500)
     /\ UNCHANGED gfs

\* PATCH /:id/increment-download to its await
IncrementDownload(r, m) ==
  /\ Accepts(r)
  /\ Continue(r, [IdleRequest EXCEPT !.route = "increment-download", !.id = m,
                                     !.pc = "inc_download"])
  /\ UNCHANGED <<Material, gfs>>

\* await Material.findByIdAndUpdate(id, { $inc: { downloads: 1 } }) settles
IncDownloads(r) ==
  LET req == requests[r]
  IN /\ req.pc = "inc_download"
     /\ \E ok \in BOOLEAN :
          IF ~ok THEN Material' = Material /\ Respond(r, req, 500)
          ELSE IF ~Material[req.id].exists THEN Material' = Material /\ Respond(r, req, 404)
          ELSE /\ Material' = [Material EXCEPT ![req.id].downloads = @ + 1]
               /\ Respond(r, req, 200)
     /\ UNCHANGED gfs

\* PATCH /:id/increment-purchase to await Material.findById
IncrementPurchase(r, m) ==
  /\ Accepts(r)
  /\ Continue(r, [IdleRequest EXCEPT !.route = "increment-purchase", !.id = m,
                                     !.pc = "purchase_find"])
  /\ UNCHANGED <<Material, gfs>>

\* revenueIncrement of increment-purchase, in hundredths
RevenueIncrement(price) ==
  IF price = StrFree \/ isNaN(ParseFloat(price)) THEN 0 ELSE ParseFloat(price)

\* await Material.findById(id) of increment-purchase settles
PurchaseFind(r) ==
  LET req == requests[r]
  IN /\ req.pc = "purchase_find"
     /\ \E ok \in BOOLEAN :
          IF ~ok THEN Respond(r, req, 500)
          ELSE IF ~Material[req.id].exists THEN Respond(r, req, 404)
          ELSE Continue(r, [req EXCEPT !.pc = "purchase_update",
                                       !.material = Material[req.id],
                                       !.revenueIncrement =
                                         RevenueIncrement(Material[req.id].price)])
     /\ UNCHANGED <<Material, gfs>>

\* an update that writes back the document read, with its counters raised
IncPurchasesSave(r) ==
  LET req == requests[r]
  IN /\ req.pc = "purchase_update"
     /\ \E ok \in BOOLEAN :
          IF ~ok \/ ~Material[req.id].exists
            THEN Material' = Material /\ Respond(r, req, 500)
            ELSE /\ Material' = [Material EXCEPT ![req.id] =
                                   [req.material EXCEPT
                                      !.purchases = @ + 1,
                                      !.revenue = @ + req.revenueIncrement]]
                 /\ Respond(r, req, 200)
     /\ UNCHANGED gfs

\* await Material.findByIdAndUpdate(id, { $inc: { purchases: 1, revenue } })
\* settles; when the item is gone the result is null and reading it throws
IncPurchases(r) ==
  LET req == requests[r]
  IN /\ req.pc = "purchase_update"
     /\ \E ok \in BOOLEAN :
          IF ~ok \/ ~Material[req.id].exists
            THEN Material' = Material /\ Respond(r, req, 500)
            ELSE /\ Material' = [Material EXCEPT ![req.id].purchases = @ + 1,
                                                 ![req.id].revenue = @ + req.revenueIncrement]
                 /\ Respond(r, req, 200)
     /\ UNCHANGED gfs

\* the catalog the admin API starts from: two items with their content
AdminMaterial ==
  [m \in MatIds |-> IF m <= 2 THEN InitMaterial[m] ELSE AbsentDoc]
AdminGfs == [f \in FileIds |-> IF f <= 2 THEN 1000 ELSE FileAbsent]

InitAdmin ==
  /\ userSessions = [u \in Users |-> NoRef]
  /\ heap = [r \in Refs |-> FreeObj]
  /\ Material = AdminMaterial
  /\ User = [u \in Users |-> NoUserDoc]
  /\ gfs = AdminGfs
  /\ inflight = [s \in Slots |-> IdleHandler]
  /\ last = NoLast
  /\ requests = InitRequests
  /\ responses = InitResponses
  /\ proc = Running
  /\ call = IdleCall

\* the req.params.id values of the requests: an item of the catalog, and an
\* id that is not found until an upload creates the item
ParamIds == {1, 3}

\* the requests of the admin API are served concurrently
NextAdmin ==
  \/ \E r \in Slots, b \in BodyIds : PostUpload(r, b)
  \/ \E r \in Slots, m \in ParamIds, b \in BodyIds : PutMaterial(r, m, b)
  \/ \E r \in Slots, m \in ParamIds : DeleteMaterial(r, m)
  \/ \E r \in Slots, m \in ParamIds : IncrementDownload(r, m)
  \/ \E r \in Slots, m \in ParamIds : IncrementPurchase(r, m)
  \/ \E r \in Slots : UploadFile(r)
  \/ \E r \in Slots : MaterialSave(r)
  \/ \E r \in Slots : FindByIdAndUpdate(r)
  \/ \E r \in Slots : DeleteFind(r)
  \/ \E r \in Slots : BucketDelete(r)
  \/ \E r \in Slots : FindByIdAndDelete(r)
  \/ \E r \in Slots : IncDownloads(r)
  \/ \E r \in Slots : PurchaseFind(r)
  \/ \E r \in Slots : IncPurchases(r)

SpecAdmin == InitAdmin /\ [][NextAdmin]_vars

\* ------------------------------------------------------- overlapping updates
\* the texts of the updates when deliveries overlap: "Download"
PeerTexts == {10}

\* the session of a user who has sent /buy, "3" and "1": the first item of
\* the category is selected and the confirmation is awaited
ConfirmedSession ==
  [NewPurchaseSession EXCEPT !.step = "confirmation", !.currentCategory = 3,
                             !.materials = FindByCategory(InitMaterial, 3),
                             !.selectedMaterial = Lean(InitMaterial, 1),
                             !.promoCode = PromoCode(0)]

\* every peer has selected the same item and is about to confirm; no User
\* document is stored yet (the saves of the middleware have failed so far)
InitPeers ==
  /\ userSessions = [u \in Peers |-> u]
  /\ heap = [r \in Refs |-> IF r \in Peers THEN ConfirmedSession ELSE FreeObj]
  /\ Material = InitMaterial
  /\ User = [u \in Peers |-> NoUserDoc]
  /\ gfs = InitGfs
  /\ inflight = [s \in Slots |-> IdleHandler]
  /\ last = NoLast
  /\ requests = InitRequests
  /\ responses = InitResponses
  /\ proc = Running
  /\ call = IdleCall

\* Telegraf starts the handler of an update without waiting for the handlers
\* of earlier updates: up to MaxInFlight handlers run at a time, their steps
\* interleaved at the awaits.  The peers confirm their downloads.
NextPeers ==
  \/ \E u \in Peers : Receive(u, MaxInFlight)
  \/ \E s \in Slots, t \in PeerTexts : handleNCLEXPurchaseFlow(s, t)
  \/ \E s \in Slots : MwFindOne(s)
  \/ \E s \in Slots : MwSave(s)
  \/ \E s \in Slots : ReplyGeneric(s)
  \/ \E s \in Slots : ReplyDownloading(s)
  \/ \E s \in Slots : BucketFind(s)
  \/ \E s \in Slots : ReadStream(s)
  \/ \E s \in Slots : SendDocument(s)
  \/ \E s \in Slots : StatsFind(s)
  \/ \E s \in Slots : StatsSave(s)
  \/ \E s \in Slots : UserSave(s)
  \/ \E s \in Slots : ReplyDeliveryEnd(s)
  \/ \E s \in Slots : ReplyDeliveryError(s)

SpecPeers == InitPeers /\ [][NextPeers]_vars

\* the texts one user sends in quick succession while choosing: "1", "4"
RaceTexts == {1, 4}

\* the user was shown the documents of the third category and has gone back
\* to the categories: the list of the session is the one that was shown
ReturnedSession ==
  Back([NewPurchaseSession EXCEPT !.step = "material_selection", !.currentCategory = 3,
                                  !.materials = FindByCategory(InitMaterial, 3)])

InitRace ==
  /\ userSessions = [u \in Users |-> 1]
  /\ heap = [r \in Refs |-> IF r = 1 THEN ReturnedSession ELSE FreeObj]
  /\ Material = InitMaterial
  /\ User = [u \in Users |-> NoUserDoc]
  /\ gfs = InitGfs
  /\ inflight = [s \in Slots |-> IdleHandler]
  /\ last = NoLast
  /\ requests = InitRequests
  /\ responses = InitResponses
  /\ proc = Running
  /\ call = IdleCall

\* the updates of one user are handled as they come: the handler of an update
\* starts while the handler of the update before is at an await.  The user
\* chooses a category and a document.
NextRace ==
  \/ \E u \in Users : Receive(u, MaxInFlight)
  \/ \E s \in Slots, t \in RaceTexts : handleNCLEXPurchaseFlow(s, t)
  \/ \E s \in Slots : MwFindOne(s)
  \/ \E s \in Slots : MwSave(s)
  \/ \E s \in Slots : ReplyFinal(s)
  \/ \E s \in Slots : ReplySearching(s)
  \/ \E s \in Slots : FindMaterials(s)
  \/ \E s \in Slots : ReplyGeneric(s)

SpecRace == InitRace /\ [][NextRace]_vars

\* the texts one user sends in quick succession while a document is
\* delivered or a category is searched: "3", "Download", "/buy"
RestartTexts == {3, 10, 18}

\* the user has selected the first document and is about to confirm
InitRestart ==
  /\ userSessions = [u \in Users |-> 1]
  /\ heap = [r \in Refs |-> IF r = 1 THEN ConfirmedSession ELSE FreeObj]
  /\ Material = InitMaterial
  /\ User = [u \in Users |-> NoUserDoc]
  /\ gfs = InitGfs
  /\ inflight = [s \in Slots |-> IdleHandler]
  /\ last = NoLast
  /\ requests = InitRequests
  /\ responses = InitResponses
  /\ proc = Running
  /\ call = IdleCall

\* the updates of one user are handled as they come.  The user confirms the
\* download, starts over with /buy and chooses a category.
NextRestart ==
  \/ \E u \in Users : Receive(u, MaxInFlight)
  \/ \E s \in Slots, t \in RestartTexts : CommandBuy(s, t)
  \/ \E s \in Slots, t \in RestartTexts : handleNCLEXPurchaseFlow(s, t)
  \/ \E s \in Slots : MwFindOne(s)
  \/ \E s \in Slots : MwSave(s)
  \/ \E s \in Slots : ReplyFinal(s)
  \/ \E s \in Slots : ReplySearching(s)
  \/ \E s \in Slots : FindMaterials(s)
  \/ \E s \in Slots : ReplyGeneric(s)
  \/ \E s \in Slots : ReplyDownloading(s)
  \/ \E s \in Slots : BucketFind(s)
  \/ \E s \in Slots : ReadStream(s)
  \/ \E s \in Slots : SendDocument(s)
  \/ \E s \in Slots : StatsFind(s)
  \/ \E s \in Slots : StatsSave(s)
  \/ \E s \in Slots : UserSave(s)
  \/ \E s \in Slots : ReplyDeliveryEnd(s)
  \/ \E s \in Slots : ReplyDeliveryError(s)

SpecRestart == InitRestart /\ [][NextRestart]_vars

\* ------------------------------------------------- process and ai.service
\* the process when start() is called: connectDB() is awaited
Booting == [pc |-> "connect", code |-> -1, by |-> "none", bot |-> FALSE]

\* process.exit(code), called at the place `by`
Exited(code, by) == [proc EXCEPT !.pc = "exited", !.code = code, !.by = by]

\* await connectDB() settles: mongoose.connect resolved, the bucket is built,
\* app.listen is called and bot.launch is awaited; or it rejected and the
\* catch of connectDB ends the process
ConnectDB ==
  /\ proc.pc = "connect"
  /\ \E ok \in BOOLEAN :
       proc' = IF ok THEN [proc EXCEPT !.pc = "launch"] ELSE Exited(1, "connectDB")
  /\ UNCHANGED <<botVars, apiVars, Material, gfs, call>>

\* await bot.launch() settles: launched; or rejected with the message of a
\* conflict, which ends the process; or rejected otherwise, which is logged.
\* The signal handlers are registered.
Launch ==
  /\ proc.pc = "launch"
  /\ \E outcome \in {"launched", "conflict", "failed"} :
       proc' = IF outcome = "conflict" THEN Exited(1, "launch")
               ELSE [proc EXCEPT !.pc = "up", !.bot = (outcome = "launched")]
  /\ UNCHANGED <<botVars, apiVars, Material, gfs, call>>

\* SIGINT or SIGTERM: shutdown awaits bot.stop
Signal ==
  /\ proc.pc = "up"
  /\ proc' = [proc EXCEPT !.pc = "stopping"]
  /\ UNCHANGED <<botVars, apiVars, Material, gfs, call>>

\* bot.stop settles (a rejection is logged) and server.close is called
BotStop ==
  /\ proc.pc = "stopping"
  /\ proc' = [proc EXCEPT !.pc = "closing", !.bot = FALSE]
  /\ UNCHANGED <<botVars, apiVars, Material, gfs, call>>

\* the callback of server.close: disconnectDB is awaited, then process.exit(0);
\* when disconnectDB rejects the callback ends there
ServerClose ==
  /\ proc.pc = "closing"
  /\ \E ok \in BOOLEAN :
       proc' = IF ok THEN Exited(0, "shutdown") ELSE [proc EXCEPT !.pc = "closed"]
  /\ UNCHANGED <<botVars, apiVars, Material, gfs, call>>

\* the limit arguments of the calls
SearchLimits == {1, 10}

\* config.OPENROUTER_KEY and the text-generation service, as a call meets
\* them: no key; the request is rejected; the body is no JSON; the JSON holds
\* no choices[0].message.content; no answer ever comes; a text is generated
AiModes == {"nokey", "error", "malformed", "unexpected", "silent", "ok"}

\* what extractNCLEXSearchTokens gives for each query and category
SearchInput ==
  [q \in QueryIds |->
     [c \in 0..Len(categories) |-> extractNCLEXSearchTokens(Queries[q], c)]]

\* a value findNCLEXMaterials or one of its callers settles with
Result(type, data, message) == [type |-> type, data |-> data, message |-> message]

\* needsNCLEXClarification(searchTokens, results, userQuery); "no" for null
needsNCLEXClarification(results) ==
  IF Len(results) = 0 THEN "none_found"
  ELSE IF \A i \in 1..Len(results) : results[i].relevanceScore < 3 THEN "specifics"
  ELSE IF Len(results) > 8 THEN "multiple"
  ELSE "no"

\* findNCLEXMaterials has settled with r (type "threw": rejected; "array": the
\* bare array of the fallback) and its caller runs on to its next await or to
\* its end: the search itself; step 2 of handleNCLEXPurchase with its catch;
\* the study path of getNCLEXAIResponse
Settle(c, r) ==
  IF c.fn = "search" THEN [c EXCEPT !.pc = "done", !.out = r]
  ELSE IF c.fn = "purchase"
    THEN [c EXCEPT !.pc = "done", !.out =
            IF r.type = "threw" THEN Result("error", <<>>, "failed")
            ELSE IF r.type = "materials" /\ Len(r.data) > 0
              THEN Result("material_selection", r.data, "list")
            ELSE Result("error", <<>>, "no_materials")]
  ELSE IF r.type \in {"threw", "category_selection"}
    THEN [c EXCEPT !.pc = "done", !.out = r]
  ELSE LET relatedMaterials == IF r.type = "materials" THEN r.data ELSE <<>>
           clarification == needsNCLEXClarification(relatedMaterials)
       IN IF clarification # "no"
            THEN [c EXCEPT !.pc = "done",
                           !.out = Result("clarification", <<>>, clarification)]
          ELSE IF c.ai = "nokey"
            THEN [c EXCEPT !.pc = "done",
                           !.out = Result("study_assistance", relatedMaterials, "template")]
          ELSE [c EXCEPT !.pc = "fetch", !.out = Result("none", relatedMaterials, "none")]

\* findNCLEXMaterials(userQuery, category, limit) to its first await, called
\* for the call c
findNCLEXMaterials(c) ==
  IF Includes(ToLowerCase(Queries[c.query]), StrSlashBuy) /\ c.category = NoCategory
    THEN Settle(c, Result("category_selection", <<>>, "none"))
  ELSE LET searchTokens == SearchInput[c.query][c.category]
       IN [c EXCEPT !.searchTokens = searchTokens,
                    !.pc = IF Len(searchTokens) = 0 THEN "fallback" ELSE "find"]

\* the process serves and no call is in progress
CanCall == proc.pc = "up" /\ call.pc = "idle"

\* findNCLEXMaterials(Queries[q], category, limit) is called
CallSearch(q, category, limit) ==
  /\ CanCall
  /\ call' = findNCLEXMaterials([IdleCall EXCEPT !.fn = "search", !.query = q,
                                                 !.category = category, !.limit = limit])
  /\ UNCHANGED <<botVars, apiVars, Material, gfs, proc>>

\* handleNCLEXPurchase(user, category, null) is called with a category: its
\* step 2 awaits findNCLEXMaterials('', category, 10)
CallPurchase(category) ==
  /\ CanCall
  /\ call' = findNCLEXMaterials([IdleCall EXCEPT !.fn = "purchase", !.query = 1,
                                                 !.category = category, !.limit = 10])
  /\ UNCHANGED <<botVars, apiVars, Material, gfs, proc>>

\* getNCLEXAIResponse(user, Queries[q], {}) is called: the purchase path hands
\* over to handleNCLEXPurchase, the study path awaits findNCLEXMaterials(message)
CallRespond(q, ai) ==
  /\ CanCall
  /\ LET c == [IdleCall EXCEPT !.fn = "respond", !.query = q, !.limit = 10, !.ai = ai]
         selectedCategory == AiSelectedCategory(Queries[q])
     IN call' = IF ~AiPurchaseIntent(Queries[q]) THEN findNCLEXMaterials(c)
                ELSE IF selectedCategory = NoCategory
                  THEN [c EXCEPT !.pc = "done",
                                 !.out = Result("category_selection", <<>>, "none")]
                ELSE findNCLEXMaterials([c EXCEPT !.fn = "purchase", !.query = 1,
                                                  !.category = selectedCategory])
  /\ UNCHANGED <<botVars, apiVars, Material, gfs, proc>>

\* generateNCLEXQuestions(Queries[q], category) is called: the template when
\* there is no key, else fetch is awaited
CallQuestions(q, category, ai) ==
  /\ CanCall
  /\ LET c == [IdleCall EXCEPT !.fn = "questions", !.query = q, !.category = category,
                               !.ai = ai]
     IN call' = IF ai = "nokey"
                  THEN [c EXCEPT !.pc = "done",
                                 !.out = Result("questions", <<>>, "template")]
                ELSE [c EXCEPT !.pc = "fetch"]
  /\ UNCHANGED <<botVars, apiVars, Material, gfs, proc>>

\* { type: 'materials', data } of findNCLEXMaterials for the documents found
Scored(c, results) ==
  Result("materials",
         Limit(scoreNCLEXRelevance(Material, results, c.searchTokens, c.category), c.limit),
         "none")

\* await getNCLEXFallbackMaterials(category, limit) of the empty token list
\* settles; a rejection is caught by the catch of findNCLEXMaterials
SearchFallback ==
  /\ proc.pc = "up" /\ call.pc = "fallback"
  /\ \E ok \in BOOLEAN :
       call' = IF ok
                 THEN Settle(call, Result("array",
                                          getNCLEXFallbackMaterials(Material, call.category,
                                                                    call.limit), "none"))
               ELSE [call EXCEPT !.pc = "catch", !.rejected = @ + 1]
  /\ UNCHANGED <<botVars, apiVars, Material, gfs, proc>>

\* await Material.find(query).limit(limit * 2).lean() settles
SearchQuery ==
  /\ proc.pc = "up" /\ call.pc = "find"
  /\ \E ok \in BOOLEAN :
       LET results == SearchFind(Material, call.searchTokens, call.category, call.limit, TRUE)
       IN call' = IF ~ok THEN [call EXCEPT !.pc = "catch", !.rejected = @ + 1]
                  ELSE IF Len(results) = 0 THEN [call EXCEPT !.pc = "partial"]
                  ELSE Settle(call, Scored(call, results))
  /\ UNCHANGED <<botVars, apiVars, Material, gfs, proc>>

\* await Material.find(partialQuery).limit(limit * 2).lean() settles
SearchPartial ==
  /\ proc.pc = "up" /\ call.pc = "partial"
  /\ \E ok \in BOOLEAN :
       LET results == SearchFind(Material, call.searchTokens, call.category, call.limit, FALSE)
       IN call' = IF ~ok THEN [call EXCEPT !.pc = "catch", !.rejected = @ + 1]
                  ELSE Settle(call, Scored(call, results))
  /\ UNCHANGED <<botVars, apiVars, Material, gfs, proc>>

\* await getNCLEXFallbackMaterials(category, limit) of the catch settles; its
\* rejection is the rejection of findNCLEXMaterials
SearchCatch ==
  /\ proc.pc = "up" /\ call.pc = "catch"
  /\ \E ok \in BOOLEAN :
       call' = IF ok
                 THEN Settle(call, Result("array",
                                          getNCLEXFallbackMaterials(Material, call.category,
                                                                    call.limit), "none"))
               ELSE Settle([call EXCEPT !.rejected = @ + 1], Result("threw", <<>>, "none"))
  /\ UNCHANGED <<botVars, apiVars, Material, gfs, proc>>

\* await fetch(...) settles, which it does when the service answers or the
\* request fails: a rejection is caught, else res.json() is awaited
Fetch ==
  /\ proc.pc = "up" /\ call.pc = "fetch"
  /\ call.ai # "silent"
  /\ call' = IF call.ai = "error"
               THEN [call EXCEPT !.pc = "done", !.out =
                       IF call.fn = "questions" THEN Result("questions", <<>>, "scenario")
                       ELSE Result("error", <<>>, "unavailable")]
             ELSE [call EXCEPT !.pc = "json"]
  /\ UNCHANGED <<botVars, apiVars, Material, gfs, proc>>

\* await res.json() settles: a rejection is caught; a body without
\* choices[0].message.content gets the fixed reply; else the text generated
ReadJson ==
  /\ proc.pc = "up" /\ call.pc = "json"
  /\ call' = [call EXCEPT !.pc = "done", !.out =
                IF call.fn = "questions"
                  THEN Result("questions", <<>>,
                              IF call.ai = "malformed" THEN "scenario"
                              ELSE IF call.ai = "unexpected" THEN "application"
                              ELSE "generated")
                ELSE IF call.ai = "malformed" THEN Result("error", <<>>, "unavailable")
                ELSE IF call.ai = "unexpected" THEN Result("error", <<>>, "unexpected")
                ELSE Result("ai_response", <<>>, "generated")]
  /\ UNCHANGED <<botVars, apiVars, Material, gfs, proc>>

\* the caller has taken what the call settled with
Return ==
  /\ call.pc = "done"
  /\ call' = IdleCall
  /\ UNCHANGED <<botVars, apiVars, Material, gfs, proc>>

\* the process starts with the catalog of the search; no update is handled
InitCore ==
  /\ userSessions = [u \in Users |-> NoRef]
  /\ heap = [r \in Refs |-> FreeObj]
  /\ Material = SearchCatalog
  /\ User = [u \in Users |-> NoUserDoc]
  /\ gfs = InitGfs
  /\ inflight = [s \in Slots |-> IdleHandler]
  /\ last = NoLast
  /\ requests = InitRequests
  /\ responses = InitResponses
  /\ proc = Booting
  /\ call = IdleCall

\* start() runs, then the functions of ai.service.js are called one at a time
NextCore ==
  \/ ConnectDB
  \/ Launch
  \/ Signal
  \/ BotStop
  \/ ServerClose
  \/ \E q \in QueryIds, c \in 0..Len(categories), l \in SearchLimits : CallSearch(q, c, l)
  \/ \E c \in 1..Len(categories) : CallPurchase(c)
  \/ \E q \in QueryIds, ai \in AiModes : CallRespond(q, ai)
  \/ \E q \in QueryIds, c \in 0..Len(categories), ai \in AiModes : CallQuestions(q, c, ai)
  \/ SearchFallback
  \/ SearchQuery
  \/ SearchPartial
  \/ SearchCatch
  \/ Fetch
  \/ ReadJson
  \/ Return

SpecCore == InitCore /\ [][NextCore]_vars

\* an awaited call that has settled is resumed: the event loop runs every
\* continuation that is ready; the store answers every query
Resumed == SearchFallback \/ SearchQuery \/ SearchPartial \/ SearchCatch \/ Fetch \/ ReadJson

SpecCoreFair == SpecCore /\ WF_vars(Resumed)

\* ------------------------------------------------------------- properties
\* the kinds of the replies a handler called for
Kinds(replies) == {replies[i].kind : i \in DOMAIN replies}

\* the handler that finished last handled a text in the purchase flow
PurchaseHandled == last.outcome # "none" /\ last.route = "purchase"

\* the edges of the purchase flow between steps
StepEdges ==
  {<<"category_selection", "material_selection">>, <<"material_selection", "confirmation">>,
   <<"confirmation", "downloading">>, <<"material_selection", "category_selection">>,
   <<"confirmation", "material_selection">>}

\* a change of one session object follows the edges; an object that becomes a
\* purchase session is not in confirmation
EdgeFollowed(old, new) ==
  /\ (old.state = "nclex_purchase" /\ new.state = "nclex_purchase" /\ old.step # new.step)
       => <<old.step, new.step>> \in StepEdges
  /\ (old.state # "nclex_purchase" /\ new.state = "nclex_purchase")
       => new.step # "confirmation"

\* the purchase session of user u leaves the map only from downloading, or
\* replaced by a fresh session, or deleted by the catch of the flow
ClearedFromDownloading(u) ==
  (userSessions[u] # NoRef /\ heap[userSessions[u]].state = "nclex_purchase"
   /\ userSessions'[u] = NoRef)
    => \/ heap[userSessions[u]].step = "downloading"
       \/ \E s \in Slots : inflight'[s].pc = "reply_generic"

C2_SelectedFromCandidates ==
  \A r \in Refs :
    heap[r].selectedMaterial # NoMaterial
      => \E i \in DOMAIN heap[r].materials : heap[r].materials[i] = heap[r].selectedMaterial

\* a stored session holds the second item of its list as its selection
C2_Witness ==
  \E u \in Users :
    /\ userSessions[u] # NoRef
    /\ Len(heap[userSessions[u]].materials) = 2
    /\ heap[userSessions[u]].selectedMaterial = heap[userSessions[u]].materials[2]

\* the failures of the calls a purchase-flow step makes: the catalog store,
\* the binary content, the chat channel
DownstreamFailures == {"catalog", "content_missing", "content_unreadable", "chat"}

\* C3: when a downstream call failed while a purchase-flow step was handled,
\* then at the end of the handler the user's session is deleted and the
\* generic retry message was sent; no failure leaves the session stored.
C3_FailureClearsSession ==
  (PurchaseHandled /\ last.fails # {} /\ last.fails \subseteq DownstreamFailures)
    => /\ last.after = FreeObj
       /\ "generic_retry" \in Kinds(last.replies)

\* the handler h is handling, or handled, the text "download" in confirmation
DownloadAsked(h) ==
  /\ h.route = "purchase"
  /\ h.before.step = "confirmation"
  /\ Input[h.text].lower = StrDownload

\* C4: in confirmation the input "download" moves the session to downloading
\* and invokes File Delivery for the session's selectedMaterial; when File
\* Delivery has returned and the handler ends, the user's session is removed
\* from the session map.
C4_DownloadDeliversAndClears ==
  /\ \A s \in Slots :
       DownloadAsked(inflight[s])
         => /\ heap[inflight[s].session].step = "downloading"
            /\ inflight[s].invoked
                 => inflight[s].material = inflight[s].before.selectedMaterial
  /\ (PurchaseHandled /\ DownloadAsked(last))
       => /\ last.after = FreeObj
          /\ userSessions[last.user] = NoRef
          /\ (\E i \in DOMAIN last.replies :
                 last.replies[i] = [kind |-> "downloading", ok |-> TRUE])
               => (last.invoked /\ last.material = last.before.selectedMaterial)

\* a file was delivered for "download" and the handler returned
C4_Witness ==
  /\ PurchaseHandled
  /\ DownloadAsked(last)
  /\ last.invoked
  /\ last.sent
  /\ last.outcome = "returned"
  /\ userSessions[last.user] = NoRef

\* C5: in category_selection with an input that matches a category, when no
\* call fails: a search with zero items ends the handler with the session in
\* category_selection and currentCategory null; otherwise in
\* material_selection with currentCategory the matched category and materials
\* the candidate list the search returned.
C5_CategorySearchOutcome ==
  (/\ PurchaseHandled
   /\ last.before.step = "category_selection"
   /\ Input[last.text].selectedCategory # NoCategory
   /\ last.fails \cap DownstreamFailures = {})
    => LET category == Input[last.text].selectedCategory
           found == FindByCategory(Material, category)
       IN IF Len(found) = 0
            THEN /\ last.after.step = "category_selection"
                 /\ last.after.currentCategory = NoCategory
            ELSE /\ last.after.step = "material_selection"
                 /\ last.after.currentCategory = category
                 /\ last.after.materials = found

\* a category with no material was searched
C5_Witness ==
  /\ PurchaseHandled
  /\ last.before.step = "category_selection"
  /\ Input[last.text].selectedCategory = 2
  /\ last.fails = {}
  /\ "no_materials" \in Kinds(last.replies)

\* the text is the integer n with 1 <= n <= L, L the length of the list
IsListNumber(text, session) ==
  /\ AllDigits(text)
  /\ ParseInt(text) >= 1
  /\ ParseInt(text) <= Len(session.materials)

\* C6: in material_selection with a candidate list of length L, the input n
\* with 1 <= n <= L sets selectedMaterial to the n-th element of the stored
\* list, stores a confirmation code and moves the session to confirmation;
\* 0, any n > L and any non-numeric input select nothing.
C6_SelectionByNumber ==
  (/\ PurchaseHandled
   /\ last.before.step = "material_selection"
   /\ Input[last.text].lower # StrBack)
    => IF IsListNumber(Input[last.text].text, last.before)
         THEN /\ last.after.selectedMaterial
                   = last.before.materials[ParseInt(Input[last.text].text)]
              /\ last.after.promoCode \in 100000..999999
              /\ last.after.step = "confirmation"
              /\ last.after.materials = last.before.materials
         ELSE /\ last.after.selectedMaterial = NoMaterial
              /\ last.after.step = "material_selection"

\* the input is one the step of the session does not accept
Unaccepted(session, t) ==
  IF session.step = "category_selection" THEN Input[t].selectedCategory = NoCategory
  ELSE IF session.step = "material_selection"
    THEN Input[t].lower # StrBack /\ ~IsListNumber(Input[t].text, session)
  ELSE IF session.step = "confirmation"
    THEN Input[t].lower # StrBack /\ Input[t].lower # StrDownload
  ELSE FALSE

\* C7: an input the step does not accept produces a re-prompt and leaves
\* every field of the session unchanged.
C7_RejectedInputKeepsSession ==
  (PurchaseHandled /\ Unaccepted(last.before, last.text))
    => /\ last.after = last.before
       /\ Kinds(last.replies)
            \cap {"category_reprompt", "select_reprompt", "confirm_reprompt"} # {}

\* C8: in confirmation the input "back" returns the session to
\* material_selection with the candidate list it had, which is displayed
\* again; in material_selection the input "back" returns the session to
\* category_selection.
C8_BackReturns ==
  (PurchaseHandled /\ Input[last.text].lower = StrBack)
    => /\ last.before.step = "confirmation"
            => /\ last.after.step = "material_selection"
               /\ last.after.materials = last.before.materials
               /\ last.after.materials # <<>>
               /\ Kinds(last.replies) = {"materials_list"}
       /\ last.before.step = "material_selection"
            => last.after.step = "category_selection"

\* "back" was handled in confirmation
C8_Witness ==
  /\ PurchaseHandled
  /\ Input[last.text].lower = StrBack
  /\ last.before.step = "confirmation"
  /\ last.before.selectedMaterial # NoMaterial

\* File Delivery, run by x (a handler in progress, or the one that finished
\* last), did not send the file for one of the two reasons
NotDelivered(x) == x.invoked /\ x.fails \cap {"content_missing", "too_large"} # {}

\* x made no send attempt and the counters and the history are as they were
NothingSentOrCounted(x) ==
  /\ "document" \notin Kinds(x.replies)
  /\ ~x.sent
  /\ CountersOf(Material, User, x.material.id, x.user) = x.pre

\* C9: when File Delivery does not send the file, the content being absent
\* or larger than 50 MiB, no send attempt is made and the item's downloads,
\* purchases and revenue and the user's download history are unchanged; a
\* content of 50 MiB or less is not refused for its size.
C9_NoSendNoCount ==
  /\ \A s \in Slots : NotDelivered(inflight[s]) => NothingSentOrCounted(inflight[s])
  /\ NotDelivered(last) => NothingSentOrCounted(last)
  /\ last.sent => last.size <= maxFileSize
  /\ ("too_large" \in last.fails) <=> (last.size > maxFileSize)

\* a content larger than 50 MiB was refused
C9_Witness ==
  /\ last.outcome = "returned"
  /\ last.invoked
  /\ "too_large" \in last.fails
  /\ last.size = maxFileSize + 1

\* C10: after a successful send of item i to user u, i.downloads is one
\* higher, i.purchases is one higher exactly when the price is not "Free",
\* i.revenue is higher by the value of the price when it is not "Free" and
\* parses as a number, and one entry is appended to u's download history.
C10_SendCounts ==
  (last.outcome # "none" /\ last.sent /\ last.fails = {})
    => LET now == CountersOf(Material, User, last.material.id, last.user)
           price == last.material.price
           paid == price # StrFree
       IN /\ now.downloads = last.pre.downloads + 1
          /\ now.purchases = last.pre.purchases + (IF paid THEN 1 ELSE 0)
          /\ now.revenue = last.pre.revenue
                + (IF paid /\ ~isNaN(ParseFloat(price)) THEN ParseFloat(price) ELSE 0)
          /\ now.history = last.pre.history + 1

\* C11: after a successful send, a failure of the history append leaves the
\* counter update in place, a failure of the counter update does not keep
\* the history append from being made, and neither failure is reported to
\* the user or retried: the replies are those of a delivery with no failure
\* and the counters are raised at most once.
C11_PartialFailureAfterSend ==
  (last.outcome # "none" /\ last.sent /\ last.fails \cap {"stats", "history"} # {})
    => LET now == CountersOf(Material, User, last.material.id, last.user)
       IN /\ "stats" \notin last.fails => now.downloads = last.pre.downloads + 1
          /\ "stats" \in last.fails
               => /\ now.downloads = last.pre.downloads
                  /\ last.fails \cap {"user", "duplicate"} = {} => last.tracked
          /\ "chat" \notin last.fails
               => /\ last.outcome = "returned"
                  /\ last.replies = << [kind |-> "downloading", ok |-> TRUE],
                                        [kind |-> "document", ok |-> TRUE],
                                        [kind |-> "download_complete", ok |-> TRUE] >>

\* the history append failed after the counters were updated
C11_Witness ==
  /\ last.outcome = "returned"
  /\ last.sent
  /\ last.fails = {"history"}
  /\ Material[last.material.id].downloads = last.pre.downloads + 1

\* which of the three keyword rules each text matches, each rule on its own
RulesMatched ==
  [t \in TextIds |->
     LET lower == ToLowerCase(Trim(Texts[t]))
     IN [resume |-> lower = StrResume,
         purchase |-> Includes(lower, StrSlashBuy)
                        \/ (Includes(lower, StrBuy) /\ Len(Trim(Texts[t])) > 10),
         practice |-> Includes(lower, StrPractice) \/ Includes(lower, StrQuestions)
                        \/ Includes(lower, StrQuiz)]]

\* the last handler handled a text (no command) of a user with no session
NoSessionText ==
  /\ last.outcome # "none"
  /\ last.text # 0
  /\ IsTextUpdate(last.text)
  /\ last.before.state = "free"

\* C19: a text of a user with no session is decided by the first rule it
\* matches, in the order resume, purchase intent, practice, free-form path:
\* resume answers with the welcome and creates nothing; otherwise purchase
\* intent starts a purchase session at the category step, with the category
\* prompt as only reply and no questions generated; otherwise a practice
\* keyword generates questions and creates no session; otherwise the
\* free-form path analyses the message.
C19_FirstMatchingRuleDecides ==
  NoSessionText
    => LET m == RulesMatched[last.text]
           kinds == Kinds(last.replies)
       IN IF m.resume
            THEN /\ last.route = "resume"
                 /\ kinds \subseteq {"welcome_back"}
                 /\ last.after = FreeObj
          ELSE IF m.purchase
            THEN /\ last.route = "buy"
                 /\ kinds = {"buy_prompt"}
                 /\ last.after = NewPurchaseSession
          ELSE IF m.practice
            THEN /\ last.route = "practice"
                 /\ kinds \subseteq {"generating", "questions"}
                 /\ last.after = FreeObj
          ELSE /\ last.route = "fallback"
               /\ last.replies # <<>>
               /\ last.replies[1].kind = "analyzing"

\* a text matching both the purchase intent and a practice keyword started a
\* purchase session
C19_Witness ==
  /\ NoSessionText
  /\ last.outcome = "returned"
  /\ RulesMatched[last.text].purchase
  /\ RulesMatched[last.text].practice
  /\ last.after = NewPurchaseSession

\* C13: every increment-download call that was applied to an existing item
\* raised its downloads by exactly one, whatever increment-purchase calls on
\* the item ran between or around them: the downloads of an item are what it
\* started with plus the number of increment-download calls answered 200.
C13_IncrementDownloadExact ==
  \A m \in MatIds :
    Material[m].exists
      => Material[m].downloads = AdminMaterial[m].downloads + responses.download[m]

\* two increment-download calls landed between the read and the update of an
\* increment-purchase call on the same item
C13_Witness ==
  /\ responses.last.route = "increment-purchase"
  /\ responses.last.status = 200
  /\ responses.download[responses.last.id] = 2
  /\ responses.last.material.downloads = 0
  /\ Material[responses.last.id].downloads = 2

\* C15: after a delete of an item of the catalog has been answered, whatever
\* the answer, the record of the item and the content it refers to are both
\* present or both absent, and after the answer 200 both are absent.
C15_DeleteKeepsRecordAndContentTogether ==
  (responses.last.route = "delete" /\ Material[responses.last.id].fileId # 0)
    => LET doc == Material[responses.last.id]
       IN /\ doc.exists <=> (gfs[doc.fileId] # FileAbsent)
          /\ responses.last.status = 200
               => (~doc.exists /\ gfs[doc.fileId] = FileAbsent)

\* C16: an upload whose fields are rejected, by the checks of the handler or
\* when the record is saved, is answered with an error, creates no record and
\* has written no bytes to the content store.
C16_RejectedUploadWritesNothing ==
  (/\ responses.last.route = "upload"
   /\ \/ BodyInput[responses.last.body].uploadRejects
      \/ BodyInput[responses.last.body].saveRejects)
    => /\ responses.last.status # 201
       /\ responses.last.id = 0
       /\ responses.last.fileId = 0

\* the text denotes a non-negative decimal number: digits, then optionally a
\* point and digits
NonNegativeDecimal(p) ==
  LET ip == DigitPrefix(p)
      rest == SubSeq(p, Len(ip) + 1, Len(p))
  IN /\ Len(ip) > 0
     /\ \/ rest = <<>>
        \/ /\ Len(rest) > 1
           /\ rest[1] = "."
           /\ DigitPrefix(Tail(rest)) = Tail(rest)

\* C17: every item stored through upload or edit has a price that is "Free"
\* or a text denoting a non-negative decimal number.
C17_StoredPriceWellFormed ==
  \A m \in MatIds :
    Material[m].exists
      => (Material[m].price = StrFree \/ NonNegativeDecimal(Material[m].price))

\* a delivery's counter update on item m takes effect in this step: the
\* material.save() of updateMaterialStats of a handler that has sent the file
DeliveryCounts(m) ==
  \E s \in Slots :
    /\ inflight[s].pc = "stats_save"
    /\ inflight[s].sent
    /\ inflight[s].material.id = m
    /\ inflight'[s].pc # "stats_save"

\* C12: for every item, in every step of every operation (deliveries,
\* upload, edit, increment endpoints), downloads, purchases and revenue do
\* not decrease, and they change only in the counter update of a File
\* Delivery that has sent the file.
C12_CountersOnlyByDelivery ==
  [][\A m \in MatIds :
       (Material[m].exists /\ Material'[m].exists)
         => /\ Material'[m].downloads >= Material[m].downloads
            /\ Material'[m].purchases >= Material[m].purchases
            /\ Material'[m].revenue >= Material[m].revenue
            /\ (\/ Material'[m].downloads # Material[m].downloads
                \/ Material'[m].purchases # Material[m].purchases
                \/ Material'[m].revenue # Material[m].revenue)
                 => DeliveryCounts(m)]_vars

\* C14: the counter update of every delivery that succeeds raises the stored
\* downloads of the item by exactly one, whatever other deliveries of the
\* item are in progress: no increment is lost.
C14_NoLostIncrement ==
  [][\A s \in Slots :
       (/\ inflight[s].pc = "stats_save"
        /\ inflight'[s].pc # "stats_save"
        /\ "stats" \notin inflight'[s].fails)
         => Material'[inflight[s].material.id].downloads
              = Material[inflight[s].material.id].downloads + 1]_vars

\* C18: the store never holds two records of one external id, and when the
\* middleware of a message has run with no failure of the store, the id has
\* exactly one record and its lastActive is the one this message set.
C18_OneRecordRefreshedByEveryMessage ==
  [][/\ \A u \in Peers : User'[u].copies <= 1
     /\ \A s \in Slots :
          (/\ inflight[s].pc = "mw_save"
           /\ inflight'[s].pc = "route"
           /\ "user" \notin inflight'[s].fails)
            => /\ User'[inflight[s].user].exists
               /\ User'[inflight[s].user].copies = 1
               /\ User'[inflight[s].user].lastActive = s]_vars

\* the sender of the update the handler in slot s handles in this step
Sender(s) == IF inflight[s].pc = "idle" THEN inflight'[s].user ELSE inflight[s].user

StopWordsOnly(userQuery) ==
  LET words == Words(Trim(ToLowerCase(userQuery)))
  IN \A i \in 1..Len(words) : words[i] \in stopWords \/ Len(words[i]) <= 2

\* the documents of the catalog a search of the category can return
Matching(docs, category) ==
  {m \in MatIds : docs[m].exists /\ (category = NoCategory \/ docs[m].category = category)}

\* ids lists the most recently created documents of the category: as many as
\* there are, up to limit, the newest first, none of those left out newer
\* than one listed
MostRecent(ids, docs, category, limit) ==
  LET listed == {ids[i] : i \in 1..Len(ids)}
      n == Cardinality(Matching(docs, category))
  IN /\ listed \subseteq Matching(docs, category)
     /\ Len(ids) = (IF n < limit THEN n ELSE limit)
     /\ \A i, j \in 1..Len(ids) : i < j => docs[ids[i]].createdAt > docs[ids[j]].createdAt
     /\ \A m \in Matching(docs, category) \ listed :
          \A k \in listed : docs[m].createdAt < docs[k].createdAt

\* C21: a search whose query holds only stop words or words of at most two
\* characters, with or without a category, returns the fallback list: the
\* most recently created documents (of the category, when one is given), at
\* most limit of them, and at least one when the catalog holds a document that
\* matches; it fails only when the catalog rejected both the query and the
\* query of the catch
C21_StopWordQueryGetsFallback ==
  (call.pc = "done" /\ call.fn = "search" /\ StopWordsOnly(Queries[call.query]))
    => IF call.out.type = "threw" THEN call.rejected = 2
       ELSE /\ call.out.type = "array"
            /\ MostRecent(call.out.data, Material, call.category, call.limit)
            /\ Matching(Material, call.category) # {} => Len(call.out.data) > 0

\* C21 witness: "please help me" is searched in the third category with limit
\* 1, and of the two documents of the category the newer one is returned
C21_Witness ==
  /\ call.pc = "done" /\ call.fn = "search"
  /\ call.query = 3 /\ call.category = 3 /\ call.limit = 1
  /\ StopWordsOnly(Queries[call.query])
  /\ call.out.type = "array" /\ call.out.data = <<1>>
  /\ Cardinality(Matching(Material, 3)) = 2

\* the score as the specification words it: 8 when the category of the
\* document is the category asked for, the points of the hits of every token,
\* and twice the number of hits when more than one token has a hit
StatedScore(d, searchTokens, category) ==
  LET RECURSIVE Points(_)
      Points(i) == IF i = 0 THEN 0 ELSE TokenMatches(d, searchTokens[i]).points + Points(i - 1)
      r == Relevance(d, searchTokens, category)
  IN (IF category # NoCategory /\ d.category = category THEN 8 ELSE 0)
     + Points(Len(searchTokens))
     + (IF Cardinality(r.matchedTokens) > 1 THEN 2 * r.totalMatches ELSE 0)

\* C22: the relevanceScore of every document a search returns is 8 for the
\* category asked for, plus per token 5 for the title, 6 for the category, 4
\* for each topic, 4 for a keyword and 2 for the description, plus twice the
\* number of hits only when more than one distinct token has a hit
C22_ScoreAsStated ==
  (call.pc = "done" /\ call.fn = "search" /\ call.out.type = "materials")
    => \A i \in 1..Len(call.out.data) :
         call.out.data[i].relevanceScore
           = StatedScore(Material[call.out.data[i].id], call.searchTokens, call.category)

\* C22, the example: "cardiac pharmacology" searched without a category gives
\* the document titled "Cardiac Pharmacology Review" a score of at least 14
C22_ExampleAtLeast14 ==
  (call.pc = "done" /\ call.fn = "search" /\ call.out.type = "materials"
   /\ call.query = 6 /\ call.category = NoCategory)
    => \E i \in 1..Len(call.out.data) :
         /\ call.out.data[i].id = 3
         /\ call.out.data[i].relevanceScore >= 14

\* C26: handleNCLEXPurchase called with a category and no selected material
\* returns the step material_selection with documents of the category whenever
\* the catalog holds one (and answers), and the "no materials" error only when
\* the catalog holds none
C26_MaterialsOfCategoryListed ==
  (call.pc = "done" /\ call.fn = "purchase")
    => /\ (Matching(Material, call.category) # {} /\ call.rejected = 0)
            => /\ call.out.type = "material_selection"
               /\ Len(call.out.data) > 0
               /\ \A i \in 1..Len(call.out.data) :
                    call.out.data[i].id \in Matching(Material, call.category)
       /\ (call.out.type = "error" /\ call.out.message = "no_materials")
            => Matching(Material, call.category) = {}

\* a consumer of the text-generation service is waiting while the service is
\* unavailable
AwaitingUnavailable ==
  /\ proc.pc = "up"
  /\ call.fn \in {"respond", "questions"}
  /\ call.pc \notin {"idle", "done"}
  /\ call.ai \in {"nokey", "error", "malformed", "unexpected", "silent"}

\* C23: while the text-generation service is unavailable (no key, a request
\* that fails, a malformed or unexpected response, no answer at all), every
\* consumer that is waiting eventually returns, with a fixed or templated
\* reply and not a generated one, unless the process is shut down first
C23_UnavailableServiceStillReplies ==
  AwaitingUnavailable ~> (\/ proc.pc # "up"
                          \/ call.pc = "done" /\ call.out.message # "generated")

\* C25: the process is ended by a failure (process.exit with a code other
\* than 0) only where the connection to the store failed at startup; no other
\* failure, a failure to launch the bot in particular, ends it
C25_OnlyStoreFailureIsFatal ==
  (proc.pc = "exited" /\ proc.code # 0) => proc.by = "connectDB"

\* the branches of the text handler
TextRoutes == {"purchase", "question", "resume", "buy", "practice", "fallback"}

\* the replies that apologise for a failure
Apologies == {"apology", "generic_retry", "delivery_error", "question_error"}

\* C24: when the document store failed while a text message was handled (the
\* user record could not be loaded or saved by the middleware, or the catalog
\* could not be read) and the chat channel did not, the handler returns: the
\* error does not escape it; and when a query of the handler itself failed,
\* the handler apologised to the user
C24_StoreFailureCaught ==
  (last.outcome # "none" /\ last.route \in TextRoutes
   /\ last.fails \cap {"user", "catalog"} # {} /\ "chat" \notin last.fails)
    => /\ last.outcome = "returned"
       /\ "catalog" \in last.fails => Kinds(last.replies) \cap Apologies # {}

\* C30: the handler of a text of a user whose session was in the purchase
\* flow, whatever its step (category_selection, material_selection,
\* confirmation or downloading), has called for at least one reply when it ends
C30_PurchaseTextIsAnswered ==
  (last.outcome # "none" /\ last.route = "purchase" /\ last.before.state = "nclex_purchase")
    => Len(last.replies) >= 1

\* the handlers of user u, in progress or the one that finished last, for
\* which flag(h) holds
HandlersWith(u, flag(_)) ==
  Cardinality({s \in Slots : inflight[s].pc # "idle" /\ inflight[s].user = u /\ flag(inflight[s])})
  + (IF last.outcome # "none" /\ last.user = u /\ flag(last) THEN 1 ELSE 0)

\* C27: for the confirmed selection of a user, whatever the user sends while
\* it is delivered ("download" a second time), the delivery is invoked by at
\* most one handler, the one that met the session in confirmation; the file
\* is sent at most once and the counters are updated at most once
C27_DeliveredAtMostOnce ==
  /\ \A u \in Peers :
       /\ HandlersWith(u, LAMBDA h : h.invoked) <= 1
       /\ HandlersWith(u, LAMBDA h : h.sent) <= 1
       /\ HandlersWith(u, LAMBDA h : h.tracked) <= 1
  /\ \A s \in Slots :
       (inflight[s].pc # "idle" /\ inflight[s].invoked)
         => inflight[s].before.step = "confirmation"

\* C27 witness: the second "Download" of a user has been handled, and did
\* nothing, while the handler of the first has sent the file
C27_Witness ==
  \E s \in Slots :
    /\ inflight[s].pc # "idle" /\ inflight[s].sent /\ inflight[s].user = last.user
    /\ last.outcome = "returned" /\ last.text = 10
    /\ last.before.step = "downloading" /\ ~last.invoked

\* C29: whenever the purchase session of a user is in confirmation, the
\* category of the document selected is the category of the session,
\* whatever the order in which the steps of the handlers are taken
C29_SelectionOfCurrentCategory ==
  \A u \in Users :
    LET o == SessionOf(userSessions, heap, u)
    IN (o.state = "nclex_purchase" /\ o.step = "confirmation")
         => /\ o.selectedMaterial # NoMaterial
            /\ o.selectedMaterial.category = o.currentCategory

\* C28: while the map holds for a user a fresh session that /buy has created
\* after a purchase-flow handler of that user had read the session before it,
\* no step of that earlier handler deletes or changes the fresh session: the
\* user stays in category_selection
C28_FreshSessionSurvives ==
  [][\A s \in Slots :
       LET h == inflight[s]
           ref == userSessions[h.user]
       IN (/\ inflight'[s] # h
           /\ h.route = "purchase"
           /\ ref # NoRef /\ ref # h.session
           /\ heap[ref] = NewPurchaseSession)
            => /\ userSessions'[h.user] = ref
               /\ heap'[ref] = heap[ref]]_vars
====
